---- MODULE Spec2Model ----
(***************************************************************************)
(* Verification model of the bank/ERP reconciliation pipeline              *)
(* (src/final.py): the subset-sum engine, the connected-component          *)
(* validator, the depth-limited anchor search of the description stages,   *)
(* the staged matcher cascade of transform() and its daily and monthly     *)
(* outputs.                                                                *)
(*                                                                         *)
(* Amounts are integer cents.  The environment-configurable limits         *)
(* (KSUM_MAX_ITEMS, MITM_STATE_BUDGET, CAP_PER_VALUE, DP_MAX_TARGET_CENTS, *)
(* DP_MAX_ITEMS_DP are read with os.getenv) are instantiated at a reduced  *)
(* configuration that keeps the order of the defaults                      *)
(*   DP_MAX_ITEMS_DP < largest n with 2^(n div 2) <= MITM_STATE_BUDGET     *)
(*                   < KSUM_MAX_ITEMS      (defaults 24 < 35 < 48).        *)
(***************************************************************************)
EXTENDS Integers, Sequences, FiniteSets, TLC

VARIABLES
    \* --- subset-sum engine run (one call of the engine) ---
    ss_pc, ss_target, ss_input, ss_items, ss_sol, ss_acc,
    \* --- finalize_by_components run ---
    cc_pc, cc_edges, cc_api, cc_erp, cc_todo, cc_q, cc_cur, cc_idx,
    cc_compA, cc_compE, cc_kept,
    \* --- main() / transform() run ---
    pc, A0, E0, desc_edges_by_type, mt_i, A, E, matches_parts, matches,
    unrec_api, unrec_erp,
    \* the row order of apis / erps inside solve_same_group while M2 runs
    m2_apis, m2_erps,
    \* the daily and monthly outputs
    daily, monthly,
    \* --- _subset_sum_for_anchor run (one anchor) ---
    df_pc, df_target, df_cands, df_depth, df_nodes, df_res

ssVars == <<ss_pc, ss_target, ss_input, ss_items, ss_sol, ss_acc>>
ccVars == <<cc_pc, cc_edges, cc_api, cc_erp, cc_todo, cc_q, cc_cur, cc_idx,
            cc_compA, cc_compE, cc_kept>>
m2Vars == <<m2_apis, m2_erps>>
aggVars == <<daily, monthly>>
plVars == <<pc, A0, E0, desc_edges_by_type, mt_i, A, E, matches_parts, matches,
            unrec_api, unrec_erp, m2Vars, aggVars>>
dfVars == <<df_pc, df_target, df_cands, df_depth, df_nodes, df_res>>
vars == <<ssVars, ccVars, plVars, dfVars>>

(***************************************************************************)
(* Configuration (src/final.py:34-42)                                      *)
(***************************************************************************)
KSUM_MAX_ITEMS == 4
MAX_GROUP_GUARD == 2000
MITM_STATE_BUDGET == 2
CAP_PER_VALUE == 3
DP_MAX_TARGET_CENTS == 6
DP_MAX_ITEMS_DP == 2

(***************************************************************************)
(* Bounds of the model                                                     *)
(***************************************************************************)
\* longest item list handed to the engine
MaxItems == 5
\* largest |target| handed to the engine
MaxTarget == 7
\* API / ERP row ids of the validator's candidate graphs
CcNApi == 2
CcNErp == 3

(***************************************************************************)
(* Arithmetic helpers                                                      *)
(***************************************************************************)
Abs(x) == IF x < 0 THEN -x ELSE x
Max2(a, b) == IF a >= b THEN a ELSE b
Min2(a, b) == IF a <= b THEN a ELSE b
MinOf(S) == CHOOSE x \in S : \A y \in S : x <= y

RECURSIVE Pow2(_)
Pow2(n) == IF n <= 0 THEN 1 ELSE 2 * Pow2(n - 1)

\* the ids / the signed sum of a list of (id, cents) pairs
RECURSIVE ItemsSum(_)
ItemsSum(items) ==
    IF items = <<>> THEN 0 ELSE Head(items)[2] + ItemsSum(Tail(items))

ItemIds(items) == [i \in 1..Len(items) |-> items[i][1]]
SeqRange(s) == {s[i] : i \in 1..Len(s)}

\* an engine result: Python's None, or a list of ids
None == [found |-> FALSE, ids |-> <<>>]
Some(ids) == [found |-> TRUE, ids |-> ids]

(***************************************************************************)
(* enforce_mitm_budget                                                     *)
(***************************************************************************)
\* variant: the shrink loop tests >= instead of >
RECURSIVE ShrinkNGe(_)
ShrinkNGe(n) ==
    IF Pow2(n \div 2) >= MITM_STATE_BUDGET /\ n > 2 THEN ShrinkNGe(n - 2) ELSE n

enforce_mitm_budget_ge(items) ==
    IF Len(items) <= 2 THEN items
    ELSE SubSeq(items, 1, ShrinkNGe(Len(items)))

RECURSIVE ShrinkN(_)
ShrinkN(n) ==
    IF Pow2(n \div 2) > MITM_STATE_BUDGET /\ n > 2 THEN ShrinkN(n - 2) ELSE n

enforce_mitm_budget(items) ==
    IF Len(items) <= 2 THEN items
    ELSE SubSeq(items, 1, ShrinkN(Len(items)))

(***************************************************************************)
(* subset_mitm: masks enumerate the subsets of a half, bit i-1 of the mask *)
(* selecting the i-th item of the half.                                    *)
(***************************************************************************)
Bit(mask, i) == (mask \div Pow2(i)) % 2

RECURSIVE MaskItems(_, _, _)
MaskItems(half, mask, i) ==
    IF i > Len(half) THEN <<>>
    ELSE (IF Bit(mask, i - 1) = 1 THEN <<half[i]>> ELSE <<>>)
         \o MaskItems(half, mask, i + 1)

MaskSum(half, mask) == ItemsSum(MaskItems(half, mask, 1))
MaskIds(half, mask) == ItemIds(MaskItems(half, mask, 1))
Masks(half) == 0..(Pow2(Len(half)) - 1)

\* best[s]: the ids of the first mask of least cardinality whose sum is s
BestMask(R, s) ==
    CHOOSE k \in Masks(R) :
        /\ MaskSum(R, k) = s
        /\ \A j \in Masks(R) :
              MaskSum(R, j) = s =>
                \/ Len(MaskIds(R, k)) < Len(MaskIds(R, j))
                \/ Len(MaskIds(R, k)) = Len(MaskIds(R, j)) /\ k <= j

\* variant: only the empty subset of the right half is looked up
HasBest_empty(R, s) == s = 0

HasBest(R, s) == \E k \in Masks(R) : MaskSum(R, k) = s

MitmSplit(n) == n \div 2

subset_mitm(target_cents, items0) ==
    IF Len(items0) = 0 THEN None
    ELSE LET items == enforce_mitm_budget(items0)
             n == Len(items)
         IN  IF n = 0 THEN None
             ELSE LET m == MitmSplit(n)
                      L == SubSeq(items, 1, m)
                      R == SubSeq(items, m + 1, n)
                      hits == {k \in Masks(L) :
                                 HasBest(R, target_cents - MaskSum(L, k))}
                  IN  IF hits = {} THEN None
                      ELSE LET k == MinOf(hits)
                           IN  Some(MaskIds(L, k) \o
                                    MaskIds(R, BestMask(R, target_cents - MaskSum(L, k))))

(***************************************************************************)
(* subset_dp: 0/1 subset sum over absolute cents with path reconstruction  *)
(***************************************************************************)
DpInit(abs_target) ==
    [s \in 0..abs_target |-> IF s = 0 THEN Some(<<>>) ELSE None]

\* one pass of the inner loop (s descending) for the item (tid, c)
DpItem(tab, abs_target, tid, c) ==
    LET c_abs == Abs(c)
    IN  IF c_abs > abs_target THEN tab
        ELSE [s \in 0..abs_target |->
                IF s >= c_abs /\ tab[s - c_abs].found
                THEN Some(Append(tab[s - c_abs].ids, tid))
                ELSE tab[s]]

RECURSIVE DpFold(_, _, _)
DpFold(tab, abs_target, items) ==
    IF items = <<>> THEN tab
    ELSE DpFold(DpItem(tab, abs_target, Head(items)[1], Head(items)[2]),
                abs_target, Tail(items))

DpGuard(abs_target, n) ==
    abs_target > DP_MAX_TARGET_CENTS \/ n > DP_MAX_ITEMS_DP

subset_dp(target, items) ==
    IF target = 0 THEN Some(<<>>)
    ELSE LET abs_target == Abs(target)
         IN  IF DpGuard(abs_target, Len(items)) THEN None
             ELSE DpFold(DpInit(abs_target), abs_target, items)[abs_target]

(***************************************************************************)
(* _sum_ok: re-sum the exact cents of the chosen ids from the items map    *)
(***************************************************************************)
RECURSIVE DictSum(_, _)
DictSum(items, idset) ==
    IF items = <<>> THEN 0
    ELSE (IF Head(items)[1] \in idset THEN Head(items)[2] ELSE 0)
         + DictSum(Tail(items), idset)

\* variant: the re-check is skipped
sum_ok_skipped(items, ids, target_cents) == TRUE

sum_ok(items, ids, target_cents) == DictSum(items, SeqRange(ids)) = target_cents

(***************************************************************************)
(* cap_items_by_value                                                      *)
(***************************************************************************)
\* by_val: the distinct cents values in order of first occurrence
RECURSIVE DistinctVals(_, _)
DistinctVals(pairs, seen) ==
    IF pairs = <<>> THEN <<>>
    ELSE IF Head(pairs)[2] \in seen THEN DistinctVals(Tail(pairs), seen)
         ELSE <<Head(pairs)[2]>> \o DistinctVals(Tail(pairs), seen \cup {Head(pairs)[2]})

\* idlist[:k] of one value, as (id, cents) pairs in input order
RECURSIVE FirstKOf(_, _, _)
FirstKOf(pairs, c, k) ==
    IF pairs = <<>> \/ k <= 0 THEN <<>>
    ELSE IF Head(pairs)[2] = c
         THEN <<Head(pairs)>> \o FirstKOf(Tail(pairs), c, k - 1)
         ELSE FirstKOf(Tail(pairs), c, k)

CountOf(pairs, c) == Cardinality({i \in 1..Len(pairs) : pairs[i][2] = c})

\* variant: one item of a value is kept
CapK_single(pairs, c, target_cents) == 1

\* variant: every item of a value is kept
CapK_uncapped(pairs, c, target_cents) == CountOf(pairs, c)

CapK(pairs, c, target_cents) ==
    LET t_abs == Abs(target_cents)
        c_abs == Max2(1, Abs(c))
        need  == t_abs \div c_abs
    IN  Min2(Min2(CountOf(pairs, c), Max2(1, need)), CAP_PER_VALUE)

RECURSIVE CapConcat(_, _, _)
CapConcat(pairs, vals, target_cents) ==
    IF vals = <<>> THEN <<>>
    ELSE FirstKOf(pairs, Head(vals), CapK(pairs, Head(vals), target_cents))
         \o CapConcat(pairs, Tail(vals), target_cents)

\* out.sort(key=|cents|, reverse=True): stable, equal keys keep their order
RECURSIVE InsertByAbsDesc(_, _)
InsertByAbsDesc(sorted, x) ==
    IF sorted = <<>> THEN <<x>>
    ELSE IF Abs(Head(sorted)[2]) >= Abs(x[2])
         THEN <<Head(sorted)>> \o InsertByAbsDesc(Tail(sorted), x)
         ELSE <<x>> \o sorted

RECURSIVE SortByAbsDesc(_, _)
SortByAbsDesc(pairs, acc) ==
    IF pairs = <<>> THEN acc
    ELSE SortByAbsDesc(Tail(pairs), InsertByAbsDesc(acc, Head(pairs)))

cap_items_by_value(pairs, target_cents) ==
    LET out == SortByAbsDesc(
                   CapConcat(pairs, DistinctVals(pairs, {}), target_cents), <<>>)
    IN  IF Len(out) > KSUM_MAX_ITEMS THEN SubSeq(out, 1, KSUM_MAX_ITEMS) ELSE out

(***************************************************************************)
(* The engine call as its callers make it (solve_same_group, 643-652):     *)
(* cap, subset_mitm, subset_dp when MITM returned None, then _sum_ok.      *)
(***************************************************************************)
EngineSol(target_cents, items) ==
    LET sol == subset_mitm(target_cents, items)
    IN  IF sol.found THEN sol ELSE subset_dp(target_cents, items)

\* "if sol:" is false for None and for the empty list
Truthy(sol) == sol.found /\ sol.ids # <<>>

AcceptSol(items, sol, target_cents) ==
    IF Truthy(sol) /\ sum_ok(items, sol.ids, target_cents) THEN sol ELSE None

SolveTarget(target_cents, cand) ==
    IF cand = <<>> THEN None
    ELSE LET items == cap_items_by_value(cand, target_cents)
         IN  IF items = <<>> THEN None
             ELSE AcceptSol(items, EngineSol(target_cents, items), target_cents)

(***************************************************************************)
(* finalize_by_components.  Edges are pairs <<api_row_id, erp_row_id>>;    *)
(* api_map / erp_map give the cents of a row id; comp_id_of_A/E map a row  *)
(* id to its component id, -1 standing for "not in the dict".              *)
(***************************************************************************)
adjA(edges, a) == {ed[2] : ed \in {x \in edges : x[1] = a}}
adjE(edges, e) == {ed[1] : ed \in {x \in edges : x[2] = e}}
nodesA(edges) == {ed[1] : ed \in edges}
nodesE(edges) == {ed[2] : ed \in edges}

\* all orders in which a set can be iterated
RECURSIVE Orders(_)
Orders(S) ==
    IF S = {} THEN {<<>>}
    ELSE UNION {{<<x>> \o t : t \in Orders(S \ {x})} : x \in S}

\* one fixed order (ascending)
RECURSIVE Ascending(_)
Ascending(S) ==
    IF S = {} THEN <<>>
    ELSE LET x == MinOf(S) IN <<x>> \o Ascending(S \ {x})

\* variant: an ERP node does not enqueue its API neighbours
ToVisitFromE_none(edges, e, compA) == {}

\* the neighbours a popped node enqueues (lines 743-745 and 750-752)
ToVisitFromA(edges, a, compE) == {e \in adjA(edges, a) : compE[e] = -1}
ToVisitFromE(edges, e, compA) == {a \in adjE(edges, e) : compA[a] = -1}

Tagged(side, order) == [i \in 1..Len(order) |-> <<side, order[i]>>]

\* one iteration of "while q" (lines 737-752): st = [q, compA, compE];
\* order is the sequence in which the neighbours are appended
BfsPending(edges, st) ==
    LET h == Head(st.q)
    IN  IF h[1] = "A"
        THEN (IF st.compA[h[2]] # -1 THEN {} ELSE ToVisitFromA(edges, h[2], st.compE))
        ELSE (IF st.compE[h[2]] # -1 THEN {} ELSE ToVisitFromE(edges, h[2], st.compA))

BfsPop(edges, st, comp_id, order) ==
    LET h == Head(st.q)
    IN  IF h[1] = "A"
        THEN IF st.compA[h[2]] # -1
             THEN [st EXCEPT !.q = Tail(st.q)]
             ELSE [st EXCEPT !.q = Tail(st.q) \o Tagged("E", order),
                             !.compA[h[2]] = comp_id]
        ELSE IF st.compE[h[2]] # -1
             THEN [st EXCEPT !.q = Tail(st.q)]
             ELSE [st EXCEPT !.q = Tail(st.q) \o Tagged("A", order),
                             !.compE[h[2]] = comp_id]

\* sums per component over the labelled nodes (lines 779-785)
RECURSIVE SumOver(_, _)
SumOver(S, f) ==
    IF S = {} THEN 0
    ELSE LET x == CHOOSE y \in S : TRUE IN f[x] + SumOver(S \ {x}, f)

\* variant: the API sum is taken over the edge rows, once per edge
RECURSIVE SumOverEdgesApi(_, _)
SumOverEdgesApi(es, api_map) ==
    IF es = {} THEN 0
    ELSE LET x == CHOOSE y \in es : TRUE
         IN  api_map[x[1]] + SumOverEdgesApi(es \ {x}, api_map)

sum_api_per_edge(edges, compA, api_map, cid) ==
    SumOverEdgesApi({ed \in edges : compA[ed[1]] = cid}, api_map)

sum_api(edges, compA, api_map, cid) ==
    SumOver({a \in nodesA(edges) : compA[a] = cid}, api_map)
sum_erp(edges, compE, erp_map, cid) ==
    SumOver({e \in nodesE(edges) : compE[e] = cid}, erp_map)

\* lines 787-790
valid_comp(edges, compA, compE, api_map, erp_map) ==
    {cid \in {compA[a] : a \in nodesA(edges)} \cup {compE[e] : e \in nodesE(edges)} :
        sum_api(edges, compA, api_map, cid) = sum_erp(edges, compE, erp_map, cid)}

\* lines 792-804: an edge carries the component id of its API node
comp_for_edge(ed, compA, compE) ==
    IF compA[ed[1]] # -1 THEN compA[ed[1]] ELSE compE[ed[2]]

KeepValid(edges, compA, compE, api_map, erp_map) ==
    {ed \in edges :
        comp_for_edge(ed, compA, compE) \in valid_comp(edges, compA, compE, api_map, erp_map)}

\* the whole function, every set iterated in ascending order
RECURSIVE BfsRun(_, _, _)
BfsRun(edges, st, comp_id) ==
    IF st.q = <<>> THEN st
    ELSE BfsRun(edges,
                BfsPop(edges, st, comp_id, Ascending(BfsPending(edges, st))),
                comp_id)

RECURSIVE LoopStarts(_, _, _, _, _)
LoopStarts(edges, side, todo, st, comp_idx) ==
    IF todo = <<>> THEN [st |-> st, comp_idx |-> comp_idx]
    ELSE LET n0 == Head(todo)
             seen == IF side = "A" THEN st.compA[n0] # -1 ELSE st.compE[n0] # -1
         IN  IF seen THEN LoopStarts(edges, side, Tail(todo), st, comp_idx)
             ELSE LoopStarts(edges, side, Tail(todo),
                             BfsRun(edges, [st EXCEPT !.q = <<<<side, n0>>>>], comp_idx),
                             comp_idx + 1)

Unlabelled(api_map, erp_map) ==
    [q |-> <<>>,
     compA |-> [a \in DOMAIN api_map |-> -1],
     compE |-> [e \in DOMAIN erp_map |-> -1]]

finalize_by_components(edges, api_map, erp_map) ==
    IF edges = {} THEN edges
    ELSE LET r1 == LoopStarts(edges, "A", Ascending(nodesA(edges)),
                              Unlabelled(api_map, erp_map), 0)
             r2 == LoopStarts(edges, "E", Ascending(nodesE(edges)), r1.st, r1.comp_idx)
         IN  KeepValid(edges, r2.st.compA, r2.st.compE, api_map, erp_map)

(***************************************************************************)
(* One engine call, step by step (solve_same_group, one target):           *)
(*   filter + cap -> subset_mitm -> subset_dp (only after None) -> _sum_ok *)
(***************************************************************************)
ItemCents == {-1, 0, 1, 2, 3}
Targets == {t \in (-MaxTarget)..MaxTarget : t # 0}

\* all lists of at most n cents values; the id of an item is its position
RECURSIVE CentsLists(_)
CentsLists(n) ==
    IF n = 0 THEN {<<>>}
    ELSE LET shorter == CentsLists(n - 1)
         IN  shorter \cup {Append(s, c) : s \in {x \in shorter : Len(x) = n - 1},
                                          c \in ItemCents}

WithIds(cs) == [i \in 1..Len(cs) |-> <<i, cs[i]>>]

\* cand.filter(|cents| <= |target|)
RECURSIVE FilterAbsLe(_, _)
FilterAbsLe(pairs, target_cents) ==
    IF pairs = <<>> THEN <<>>
    ELSE (IF Abs(Head(pairs)[2]) <= Abs(target_cents) THEN <<Head(pairs)>> ELSE <<>>)
         \o FilterAbsLe(Tail(pairs), target_cents)

ccIdle ==
    /\ cc_pc = "idle" /\ cc_edges = {} /\ cc_api = <<>> /\ cc_erp = <<>>
    /\ cc_todo = {} /\ cc_q = <<>> /\ cc_cur = -1 /\ cc_idx = 0
    /\ cc_compA = <<>> /\ cc_compE = <<>> /\ cc_kept = {}

plIdle ==
    /\ pc = "idle" /\ A0 = <<>> /\ E0 = <<>> /\ desc_edges_by_type = <<>>
    /\ mt_i = 0
    /\ A = {} /\ E = {} /\ matches_parts = <<>> /\ matches = {}
    /\ unrec_api = {} /\ unrec_erp = {}
    /\ m2_apis = <<>> /\ m2_erps = <<>>
    /\ daily = {} /\ monthly = {}

dfIdle ==
    /\ df_pc = "idle" /\ df_target = 0 /\ df_cands = <<>> /\ df_depth = 0
    /\ df_nodes = <<>> /\ df_res = None

ssIdle ==
    /\ ss_pc = "idle" /\ ss_target = 0 /\ ss_input = <<>> /\ ss_items = <<>>
    /\ ss_sol = None /\ ss_acc = None

InitSS ==
    /\ ss_pc = "cap"
    /\ ss_target \in Targets
    /\ ss_input \in {WithIds(cs) : cs \in CentsLists(MaxItems)}
    /\ ss_items = <<>>
    /\ ss_sol = None
    /\ ss_acc = None
    /\ ccIdle /\ plIdle /\ dfIdle

\* api_sign / erp_sign (load_api_from_pg, load_erp_from_pg): cents >= 0 -> +1
SignOf(c) == IF c >= 0 THEN 1 ELSE -1

\* the calls solve_same_group makes: the rows of one partition share their sign
InitSameSign ==
    /\ InitSS
    /\ \A i \in 1..Len(ss_input) : SignOf(ss_input[i][2]) = SignOf(ss_target)

\* lines 639-646: candidates, cap; an empty list ends the call ("continue")
SSCap ==
    /\ ss_pc = "cap"
    /\ LET cand  == FilterAbsLe(ss_input, ss_target)
           items == IF cand = <<>> THEN <<>> ELSE cap_items_by_value(cand, ss_target)
       IN  /\ ss_items' = items
           /\ ss_pc' = IF items = <<>> THEN "done" ELSE "mitm"
    /\ UNCHANGED <<ss_target, ss_input, ss_sol, ss_acc, ccVars, plVars, dfVars>>

\* line 647
SSMitm ==
    /\ ss_pc = "mitm"
    /\ ss_sol' = subset_mitm(ss_target, ss_items)
    /\ ss_pc' = IF ss_sol'.found THEN "check" ELSE "dp"
    /\ UNCHANGED <<ss_target, ss_input, ss_items, ss_acc, ccVars, plVars, dfVars>>

\* lines 648-649
SSDp ==
    /\ ss_pc = "dp"
    /\ ss_sol' = subset_dp(ss_target, ss_items)
    /\ ss_pc' = "check"
    /\ UNCHANGED <<ss_target, ss_input, ss_items, ss_acc, ccVars, plVars, dfVars>>

\* lines 650-652
SSCheck ==
    /\ ss_pc = "check"
    /\ ss_acc' = AcceptSol(ss_items, ss_sol, ss_target)
    /\ ss_pc' = "done"
    /\ UNCHANGED <<ss_target, ss_input, ss_items, ss_sol, ccVars, plVars, dfVars>>

NextSS == SSCap \/ SSMitm \/ SSDp \/ SSCheck

SpecSS == InitSS /\ [][NextSS]_vars
SpecSameSign == InitSameSign /\ [][NextSS]_vars

(***************************************************************************)
(* Properties of the engine (SpecSS)                                       *)
(***************************************************************************)
\* the exact signed cents of the ids of a list, read from the call's input
RECURSIVE InputSum(_)
InputSum(ids) ==
    IF ids = <<>> THEN 0 ELSE ss_input[Head(ids)][2] + InputSum(Tail(ids))

DistinctIds(ids) == Cardinality(SeqRange(ids)) = Len(ids)

RECURSIVE SetSum(_, _)
SetSum(items, S) ==
    IF S = {} THEN 0
    ELSE LET i == CHOOSE x \in S : TRUE
         IN  items[i][2] + SetSum(items, S \ {i})

SomeSubsetSums(items, target_cents) ==
    \E S \in SUBSET (1..Len(items)) : SetSum(items, S) = target_cents

\* the engine (MITM, then DP) has run and returned None
EngineReturnedNone == ss_pc \in {"check", "done"} /\ ss_items # <<>> /\ ~ss_sol.found

\* enforce_mitm_budget leaves a list of this length whole
WithinMitmBudget(n) == n <= 2 \/ Pow2(n \div 2) <= MITM_STATE_BUDGET

\* C8: every subset the engine returns and the caller accepts consists of
\* distinct ids of the items and sums, in exact signed cents, to the target;
\* a returned candidate whose sum differs is discarded (nothing is accepted).
C8_AcceptedSubsetSumsToTarget ==
    /\ ss_acc.found =>
          /\ SeqRange(ss_acc.ids) \subseteq SeqRange(ItemIds(ss_items))
          /\ DistinctIds(ss_acc.ids)
          /\ InputSum(ss_acc.ids) = ss_target
    /\ (ss_pc = "done" /\ ss_sol.found /\ InputSum(ss_sol.ids) # ss_target)
          => ~ss_acc.found

C8_Witness ==
    ss_pc = "done" /\ ss_acc.found /\ Len(ss_acc.ids) >= 2

\* C9 as stated: whenever the engine returns no solution for a capped list
\* (of any length up to KSUM_MAX_ITEMS), no subset of the capped list sums to
\* the target.
C9_NoneMeansNoSubset ==
    EngineReturnedNone => ~SomeSubsetSums(ss_items, ss_target)

\* C9 amended: whenever the engine returns no solution for a capped list that
\* enforce_mitm_budget leaves whole (n <= 2 or 2^(n div 2) <= MITM_STATE_BUDGET),
\* no subset of the capped list sums to the target.
C9_NoneMeansNoSubsetWithinBudget ==
    (EngineReturnedNone /\ WithinMitmBudget(Len(ss_items)))
        => ~SomeSubsetSums(ss_items, ss_target)

C9_Witness ==
    /\ ss_pc = "done" /\ EngineReturnedNone
    /\ Len(ss_items) = 3 /\ WithinMitmBudget(3)
    /\ \A i \in 1..3 : ss_items[i][2] > 0

(***************************************************************************)
(* finalize_by_components, step by step: the order in which list(nodesA),  *)
(* list(nodesE) and the adjacency sets are iterated is left open.          *)
(***************************************************************************)
CcApiIds == 0..(CcNApi - 1)
CcErpIds == 0..(CcNErp - 1)
CcCents == {1, 2}

ccSt == [q |-> cc_q, compA |-> cc_compA, compE |-> cc_compE]

InitCC ==
    /\ cc_pc = "start"
    /\ cc_edges \in SUBSET (CcApiIds \X CcErpIds)
    /\ cc_api \in [CcApiIds -> CcCents]
    /\ cc_erp \in [CcErpIds -> CcCents]
    /\ cc_todo = {} /\ cc_q = <<>> /\ cc_cur = -1 /\ cc_idx = 0
    /\ cc_compA = [a \in CcApiIds |-> -1]
    /\ cc_compE = [e \in CcErpIds |-> -1]
    /\ cc_kept = {}
    /\ ssIdle /\ plIdle /\ dfIdle

\* lines 702-703
CCEmpty ==
    /\ cc_pc = "start" /\ cc_edges = {}
    /\ cc_kept' = cc_edges
    /\ cc_pc' = "done"
    /\ UNCHANGED <<cc_edges, cc_api, cc_erp, cc_todo, cc_q, cc_cur, cc_idx,
                   cc_compA, cc_compE, ssVars, plVars, dfVars>>

\* lines 705-727
CCBuild ==
    /\ cc_pc = "start" /\ cc_edges # {}
    /\ cc_todo' = nodesA(cc_edges)
    /\ cc_pc' = "loopA"
    /\ UNCHANGED <<cc_edges, cc_api, cc_erp, cc_q, cc_cur, cc_idx,
                   cc_compA, cc_compE, cc_kept, ssVars, plVars, dfVars>>

\* lines 730-736 and 755-761: the next start node of the running for-loop
CCStart ==
    /\ cc_pc \in {"loopA", "loopE"} /\ cc_todo # {}
    /\ \E n0 \in cc_todo :
          /\ cc_todo' = cc_todo \ {n0}
          /\ IF (IF cc_pc = "loopA" THEN cc_compA[n0] ELSE cc_compE[n0]) # -1
             THEN UNCHANGED <<cc_pc, cc_q, cc_cur, cc_idx>>
             ELSE /\ cc_q' = <<<<(IF cc_pc = "loopA" THEN "A" ELSE "E"), n0>>>>
                  /\ cc_cur' = cc_idx
                  /\ cc_idx' = cc_idx + 1
                  /\ cc_pc' = IF cc_pc = "loopA" THEN "bfsA" ELSE "bfsE"
    /\ UNCHANGED <<cc_edges, cc_api, cc_erp, cc_compA, cc_compE, cc_kept,
                   ssVars, plVars, dfVars>>

\* lines 737-752 and 762-777: one iteration of "while q"
CCPop ==
    /\ cc_pc \in {"bfsA", "bfsE"} /\ cc_q # <<>>
    /\ \E order \in Orders(BfsPending(cc_edges, ccSt)) :
          LET st == BfsPop(cc_edges, ccSt, cc_cur, order)
          IN  /\ cc_q' = st.q
              /\ cc_compA' = st.compA
              /\ cc_compE' = st.compE
    /\ UNCHANGED <<cc_pc, cc_edges, cc_api, cc_erp, cc_todo, cc_cur, cc_idx,
                   cc_kept, ssVars, plVars, dfVars>>

\* the queue ran empty: back to the for-loop
CCDrained ==
    /\ cc_pc \in {"bfsA", "bfsE"} /\ cc_q = <<>>
    /\ cc_pc' = IF cc_pc = "bfsA" THEN "loopA" ELSE "loopE"
    /\ UNCHANGED <<cc_edges, cc_api, cc_erp, cc_todo, cc_q, cc_cur, cc_idx,
                   cc_compA, cc_compE, cc_kept, ssVars, plVars, dfVars>>

\* the loop over nodesA is over: the loop over nodesE starts
CCLoopE ==
    /\ cc_pc = "loopA" /\ cc_todo = {}
    /\ cc_todo' = nodesE(cc_edges)
    /\ cc_pc' = "loopE"
    /\ UNCHANGED <<cc_edges, cc_api, cc_erp, cc_q, cc_cur, cc_idx,
                   cc_compA, cc_compE, cc_kept, ssVars, plVars, dfVars>>

\* lines 779-804
CCFilter ==
    /\ cc_pc = "loopE" /\ cc_todo = {}
    /\ cc_kept' = KeepValid(cc_edges, cc_compA, cc_compE, cc_api, cc_erp)
    /\ cc_pc' = "done"
    /\ UNCHANGED <<cc_edges, cc_api, cc_erp, cc_todo, cc_q, cc_cur, cc_idx,
                   cc_compA, cc_compE, ssVars, plVars, dfVars>>

NextCC == CCEmpty \/ CCBuild \/ CCStart \/ CCPop \/ CCDrained \/ CCLoopE \/ CCFilter

SpecCC == InitCC /\ [][NextCC]_vars

(***************************************************************************)
(* Properties of the validator (SpecCC)                                    *)
(***************************************************************************)
\* the connected component of a node set in a bipartite edge set; nodes are
\* <<"A", id>> and <<"E", id>>
RECURSIVE Component(_, _)
Component(S, edges) ==
    LET S2 == S \cup {<<"E", ed[2]>> : ed \in {x \in edges : <<"A", x[1]>> \in S}}
                \cup {<<"A", ed[1]>> : ed \in {x \in edges : <<"E", x[2]>> \in S}}
    IN  IF S2 = S THEN S ELSE Component(S2, edges)

ApiOf(K) == {n[2] : n \in {x \in K : x[1] = "A"}}
ErpOf(K) == {n[2] : n \in {x \in K : x[1] = "E"}}

RECURSIVE CentsOver(_, _)
CentsOver(ids, cents) ==
    IF ids = {} THEN 0
    ELSE LET i == CHOOSE x \in ids : TRUE IN cents[i] + CentsOver(ids \ {i}, cents)

Balanced(K, api_cents, erp_cents) ==
    CentsOver(ApiOf(K), api_cents) = CentsOver(ErpOf(K), erp_cents)

\* C1: after finalize_by_components every connected component of the graph
\* of the surviving edges has equal API-cents and ERP-cents sums.
C1_SurvivingComponentsBalance ==
    cc_pc = "done" =>
        \A ed \in cc_kept :
            Balanced(Component({<<"A", ed[1]>>}, cc_kept), cc_api, cc_erp)

C1_Witness ==
    /\ cc_pc = "done"
    /\ cc_kept # {} /\ cc_kept # cc_edges
    /\ \E ed \in cc_kept : Cardinality(Component({<<"A", ed[1]>>}, cc_kept)) >= 3

\* C2: an edge is kept iff the component of the candidate graph that holds it
\* balances, whatever order the start nodes and the neighbours were visited
\* in (the result is that of the fixed ascending order as well).
C2_KeptIffComponentBalanced ==
    cc_pc = "done" =>
        /\ cc_kept = {ed \in cc_edges :
                        Balanced(Component({<<"A", ed[1]>>}, cc_edges), cc_api, cc_erp)}
        /\ cc_kept = finalize_by_components(cc_edges, cc_api, cc_erp)

C2_Witness ==
    /\ cc_pc = "done"
    /\ cc_kept # {}
    /\ \E ed \in cc_edges \ cc_kept :
          /\ Cardinality(Component({<<"A", ed[1]>>}, cc_edges)) >= 3
          /\ cc_api[ed[1]] = cc_erp[ed[2]]

(***************************************************************************)
(* Rows.  A row is what the silver tables hold for one transaction; the    *)
(* row id (api_row_id / erp_row_id, int_range(0, len)) is its position in  *)
(* A0 / E0 counted from 0.  Amounts are kept in cents (two-decimal         *)
(* amounts), dates are day numbers with day 0 a Monday, an account number  *)
(* is the sequence of its characters (digits 0..9, any other character     *)
(* written as -1) and a description is the sequence of the tokens that     *)
(* normalize_text(...).split() yields.                                     *)
(***************************************************************************)
TENANT == "anderle"
ACC_TAIL_DIGITS == 8

\* '\D' removed, then '^0+' removed, then the last n characters
RECURSIVE StripLeadingZeros(_)
StripLeadingZeros(s) ==
    IF s # <<>> /\ Head(s) = 0 THEN StripLeadingZeros(Tail(s)) ELSE s

OnlyDigits(s) == SelectSeq(s, LAMBDA ch : ch \in 0..9)

LastChars(s, n) == IF Len(s) <= n THEN s ELSE SubSeq(s, Len(s) - n + 1, Len(s))

right_digits(acc, n) == LastChars(StripLeadingZeros(OnlyDigits(acc)), n)

normalize_account_number(acc) == StripLeadingZeros(OnlyDigits(acc))

\* polars columns of the loaders
\* api_sign / erp_sign
row_sign(r) == SignOf(r.cents)
acc_tail(r) == right_digits(r.account_number, ACC_TAIL_DIGITS)
api_is_tax(r) == r.categoryid = "15030000"
api_is_bankfees(r) == r.categoryid = "16000000"
api_is_rent_d1(r) == r.operationtype = "RENDIMENTO_APLIC_FINANCEIRA"
api_is_rent_generic(r) ==
    r.categoryid = "03060000" \/ r.operationtype = "RESGATE_APLIC_FINANCEIRA"
api_is_rent(r) == api_is_rent_d1(r) \/ api_is_rent_generic(r)

RowIds(df) == 0..(Len(df) - 1)
RowOf(df, id) == df[id + 1]

(***************************************************************************)
(* Business days and keywords of the description matchers                  *)
(***************************************************************************)
is_weekend(d) == (d % 7) >= 5

RECURSIVE prev_business_day(_)
prev_business_day(d) ==
    IF is_weekend(d - 1) THEN prev_business_day(d - 1) ELSE d - 1

RECURSIVE next_business_day(_)
next_business_day(d) ==
    IF is_weekend(d + 1) THEN next_business_day(d + 1) ELSE d + 1

RECURSIVE add_business_days(_, _)
add_business_days(d, n) ==
    IF n = 0 THEN d
    ELSE IF n > 0 THEN add_business_days(next_business_day(d), n - 1)
    ELSE add_business_days(prev_business_day(d), n + 1)

candidate_dates(d) ==
    { d, add_business_days(d, 1), add_business_days(d, 2),
      add_business_days(d, -1), add_business_days(d, -2) }

\* the members of STOPWORDS that the modelled descriptions use
STOPWORDS == {"PAGAMENTO", "TRANSFERENCIA", "DOC", "TED", "PIX", "BOLETO"}
\* tokens made of digits only (str.isdigit)
DigitTokens == {"123", "2025", "7823"}

RECURSIVE KeywordsFrom(_, _, _)
KeywordsFrom(tokens, kws, max_keywords) ==
    IF tokens = <<>> \/ Len(kws) >= max_keywords THEN kws
    ELSE LET t == Head(tokens)
             skip == \/ Len(t) <= 2
                     \/ t \in DigitTokens
                     \/ t \in STOPWORDS
                     \/ t \in SeqRange(kws)
         IN  KeywordsFrom(Tail(tokens), IF skip THEN kws ELSE Append(kws, t),
                          max_keywords)

extract_keywords(tokens, max_keywords) == KeywordsFrom(tokens, <<>>, max_keywords)

get_signature(kws) == SubSeq(kws, 1, Min2(3, Len(kws)))

(***************************************************************************)
(* Description matchers (reconcile_by_description).  A Tx is named by its  *)
(* side and its row position idx; txs lists the API rows, then the ERP     *)
(* rows.  "matched" is the set of Txs whose matched flag is set.           *)
(* Parameters as passed by main(), in cents where they are amounts.        *)
(***************************************************************************)
EPS_CENTS == 1
DESC_MIN_AMOUNT_CENTS == 10000000
DESC_MAX_GROUP_SIZE == 25
DESC_MIN_KEYWORDS == 2
MAX_KEYWORDS == 10

Tx(side, idx) == [side |-> side, idx |-> idx]

build_txs(api_df, erp_df) ==
    [i \in 1..(Len(api_df) + Len(erp_df)) |->
        IF i <= Len(api_df) THEN Tx("api", i - 1)
        ELSE Tx("erp", i - Len(api_df) - 1)]

TxRow(api_df, erp_df, tx) ==
    IF tx.side = "api" THEN RowOf(api_df, tx.idx) ELSE RowOf(erp_df, tx.idx)

TxAbs(api_df, erp_df, tx) == Abs(TxRow(api_df, erp_df, tx).cents)

tx_sign(cents) == IF cents > 0 THEN 1 ELSE IF cents < 0 THEN -1 ELSE 0

TxSign(api_df, erp_df, tx) == tx_sign(TxRow(api_df, erp_df, tx).cents)

TxAccNorm(api_df, erp_df, tx) ==
    normalize_account_number(TxRow(api_df, erp_df, tx).account_number)

TxKeywords(api_df, erp_df, tx) ==
    extract_keywords(TxRow(api_df, erp_df, tx).text, MAX_KEYWORDS)

RECURSIVE SumAbs(_, _, _)
SumAbs(api_df, erp_df, S) ==
    IF S = {} THEN 0
    ELSE LET tx == CHOOSE x \in S : TRUE
         IN  TxAbs(api_df, erp_df, tx) + SumAbs(api_df, erp_df, S \ {tx})

\* sorted(..., key=abs(amount), reverse=True): stable, larger amounts first
RECURSIVE InsertTxByAbsDesc(_, _, _, _)
InsertTxByAbsDesc(api_df, erp_df, sorted, tx) ==
    IF sorted = <<>> THEN <<tx>>
    ELSE IF TxAbs(api_df, erp_df, Head(sorted)) >= TxAbs(api_df, erp_df, tx)
         THEN <<Head(sorted)>> \o InsertTxByAbsDesc(api_df, erp_df, Tail(sorted), tx)
         ELSE <<tx>> \o sorted

RECURSIVE SortTxByAbsDesc(_, _, _, _)
SortTxByAbsDesc(api_df, erp_df, todo, acc) ==
    IF todo = <<>> THEN acc
    ELSE SortTxByAbsDesc(api_df, erp_df, Tail(todo),
                         InsertTxByAbsDesc(api_df, erp_df, acc, Head(todo)))

\* ---- 01_DESC_MN_SIGNATURE ----
SigEligible(api_df, erp_df, tx) ==
    LET r == TxRow(api_df, erp_df, tx)
    IN  /\ TxSign(api_df, erp_df, tx) # 0
        /\ r.bank_code # ""
        /\ TxAccNorm(api_df, erp_df, tx) # <<>>
        /\ get_signature(TxKeywords(api_df, erp_df, tx)) # <<>>

ClusterKey(api_df, erp_df, tx) ==
    LET r == TxRow(api_df, erp_df, tx)
    IN  << r.tenant_id, r.bank_code, TxAccNorm(api_df, erp_df, tx), r.date,
           TxSign(api_df, erp_df, tx),
           get_signature(TxKeywords(api_df, erp_df, tx)) >>

\* the clusters whose two sides are non-empty and agree within eps; a result
\* group is [api |-> Txs, erp |-> Txs]
match_many_to_many_by_signature(api_df, erp_df) ==
    LET txs == SeqRange(build_txs(api_df, erp_df))
        elig == {tx \in txs : SigEligible(api_df, erp_df, tx)}
        keys == {ClusterKey(api_df, erp_df, tx) : tx \in elig}
        side(k, sd) == {tx \in elig : tx.side = sd /\ ClusterKey(api_df, erp_df, tx) = k}
        clusters == {[api |-> side(k, "api"), erp |-> side(k, "erp")] : k \in keys}
    IN  {c \in clusters :
            /\ c.api # {} /\ c.erp # {}
            /\ Abs(SumAbs(api_df, erp_df, c.api) - SumAbs(api_df, erp_df, c.erp))
                   <= EPS_CENTS}

GroupTxs(groups) == UNION {g.api \cup g.erp : g \in groups}

\* ---- shared tests of 02 and 03: "Nunca misturar bancos nem contas" ----
SameBankAndAccount(api_df, erp_df, anchor, tx) ==
    LET ra == TxRow(api_df, erp_df, anchor)
        rt == TxRow(api_df, erp_df, tx)
        an == TxAccNorm(api_df, erp_df, anchor)
        tn == TxAccNorm(api_df, erp_df, tx)
    IN  /\ rt.tenant_id = ra.tenant_id
        /\ rt.bank_code = ra.bank_code
        /\ ~(an # <<>> /\ tn # <<>> /\ tn # an)

KwSet(api_df, erp_df, tx) == SeqRange(TxKeywords(api_df, erp_df, tx))

\* ---- 02_DESC_FULL_1N ----
FullAnchors(api_df, erp_df, matched) ==
    SortTxByAbsDesc(api_df, erp_df,
        SelectSeq(build_txs(api_df, erp_df),
                  LAMBDA tx : /\ tx.side = "api" /\ tx \notin matched
                              /\ TxSign(api_df, erp_df, tx) # 0
                              /\ TxAbs(api_df, erp_df, tx) >= DESC_MIN_AMOUNT_CENTS),
        <<>>)

FullCandidates(api_df, erp_df, matched, anchor) ==
    {tx \in SeqRange(build_txs(api_df, erp_df)) :
        /\ tx \notin matched /\ tx.side = "erp"
        /\ TxSign(api_df, erp_df, tx) = TxSign(api_df, erp_df, anchor)
        /\ TxRow(api_df, erp_df, tx).date
               \in candidate_dates(TxRow(api_df, erp_df, anchor).date)
        /\ SameBankAndAccount(api_df, erp_df, anchor, tx)
        /\ KwSet(api_df, erp_df, tx) # {}
        /\ Cardinality(KwSet(api_df, erp_df, anchor) \cap KwSet(api_df, erp_df, tx))
               >= DESC_MIN_KEYWORDS}

RECURSIVE FullLoop(_, _, _, _, _)
FullLoop(api_df, erp_df, anchors, matched, out) ==
    IF anchors = <<>> THEN [matched |-> matched, groups |-> out]
    ELSE LET anchor == Head(anchors)
             erp_idxs == FullCandidates(api_df, erp_df, matched, anchor)
             hit == /\ KwSet(api_df, erp_df, anchor) # {}
                    /\ erp_idxs # {}
                    /\ Abs(SumAbs(api_df, erp_df, erp_idxs)
                           - TxAbs(api_df, erp_df, anchor)) <= EPS_CENTS
         IN  IF hit
             THEN FullLoop(api_df, erp_df, Tail(anchors),
                           matched \cup {anchor} \cup erp_idxs,
                           out \cup {[api |-> {anchor}, erp |-> erp_idxs]})
             ELSE FullLoop(api_df, erp_df, Tail(anchors), matched, out)

match_full_group_by_description(api_df, erp_df, matched) ==
    FullLoop(api_df, erp_df, FullAnchors(api_df, erp_df, matched), matched, {})

\* ---- 03_DESC_KSUM_1N / 03_DESC_KSUM_N1 ----
RECURSIVE PrefixSum(_, _)
PrefixSum(abs_vals, k) ==
    IF k = 0 THEN 0 ELSE PrefixSum(abs_vals, k - 1) + abs_vals[k]

\* dfs of _subset_sum_for_anchor; start and the chosen indexes count from 0.
\* The node budget (max_nodes = 200000) is far above the number of nodes of
\* the candidate lists within the model's bounds.
RECURSIVE dfs(_, _, _, _, _, _)
RECURSIVE DfsFor(_, _, _, _, _, _, _)
dfs(abs_vals, target, start, depth_limit, chosen, current_sum) ==
    IF Len(chosen) = depth_limit
    THEN IF Abs(current_sum - target) <= EPS_CENTS THEN Some(chosen) ELSE None
    ELSE IF current_sum > target + EPS_CENTS THEN None
    ELSE LET remaining_slots == depth_limit - Len(chosen)
         IN  IF start + remaining_slots > Len(abs_vals) THEN None
             ELSE IF current_sum + (PrefixSum(abs_vals, start + remaining_slots)
                                    - PrefixSum(abs_vals, start)) < target - EPS_CENTS
                  THEN None
                  ELSE DfsFor(abs_vals, target, start, depth_limit, chosen,
                              current_sum, start)

DfsFor(abs_vals, target, start, depth_limit, chosen, current_sum, i) ==
    IF i >= Len(abs_vals) THEN None
    ELSE LET res == dfs(abs_vals, target, i + 1, depth_limit, Append(chosen, i),
                        current_sum + abs_vals[i + 1])
         IN  IF res.found THEN res
             ELSE DfsFor(abs_vals, target, start, depth_limit, chosen,
                         current_sum, i + 1)

RECURSIVE DepthLoop(_, _, _, _)
DepthLoop(abs_vals, target, depth, max_len) ==
    IF depth > max_len THEN None
    ELSE LET res == dfs(abs_vals, target, 0, depth, <<>>, 0)
         IN  IF res.found THEN res
             ELSE DepthLoop(abs_vals, target, depth + 1, max_len)

\* the Txs of the first subset found, None when there is none
subset_sum_for_anchor(api_df, erp_df, target, candidates, max_len) ==
    LET cands_sorted == SortTxByAbsDesc(api_df, erp_df, candidates, <<>>)
        abs_vals == [k \in 1..Len(cands_sorted) |->
                        TxAbs(api_df, erp_df, cands_sorted[k])]
        res == DepthLoop(abs_vals, target, 1, max_len)
    IN  IF res.found
        THEN Some([k \in 1..Len(res.ids) |-> cands_sorted[res.ids[k] + 1]])
        ELSE None

KsumCandidates(api_df, erp_df, matched, anchor) ==
    SelectSeq(build_txs(api_df, erp_df),
        LAMBDA tx :
            /\ tx \notin matched /\ tx.side # anchor.side
            /\ TxSign(api_df, erp_df, tx) = TxSign(api_df, erp_df, anchor)
            /\ TxRow(api_df, erp_df, tx).date = TxRow(api_df, erp_df, anchor).date
            /\ SameBankAndAccount(api_df, erp_df, anchor, tx)
            /\ Cardinality(KwSet(api_df, erp_df, tx)) >= DESC_MIN_KEYWORDS
            /\ Cardinality(KwSet(api_df, erp_df, anchor) \cap KwSet(api_df, erp_df, tx))
                   >= DESC_MIN_KEYWORDS)

RECURSIVE KsumLoop(_, _, _, _, _)
KsumLoop(api_df, erp_df, order, matched, out) ==
    IF order = <<>> THEN [matched |-> matched, groups |-> out]
    ELSE LET anchor == Head(order)
             cands == KsumCandidates(api_df, erp_df, matched, anchor)
             group == subset_sum_for_anchor(api_df, erp_df,
                          TxAbs(api_df, erp_df, anchor), cands, DESC_MAX_GROUP_SIZE)
             others == SeqRange(group.ids)
         IN  IF anchor \in matched \/ TxSign(api_df, erp_df, anchor) = 0
             THEN KsumLoop(api_df, erp_df, Tail(order), matched, out)
             ELSE IF TxAbs(api_df, erp_df, anchor) < DESC_MIN_AMOUNT_CENTS
             THEN [matched |-> matched, groups |-> out]
             ELSE IF Cardinality(KwSet(api_df, erp_df, anchor)) < DESC_MIN_KEYWORDS
                     \/ cands = <<>> \/ ~Truthy(group)
             THEN KsumLoop(api_df, erp_df, Tail(order), matched, out)
             ELSE KsumLoop(api_df, erp_df, Tail(order),
                           matched \cup {anchor} \cup others,
                           out \cup {IF anchor.side = "erp"
                                     THEN [match_type |-> "03_DESC_KSUM_1N",
                                           api |-> others, erp |-> {anchor}]
                                     ELSE [match_type |-> "03_DESC_KSUM_N1",
                                           api |-> {anchor}, erp |-> others]})

match_one_to_many_by_description(api_df, erp_df, matched) ==
    KsumLoop(api_df, erp_df,
             SortTxByAbsDesc(api_df, erp_df, build_txs(api_df, erp_df), <<>>),
             matched, {})

\* the groups of the three matchers, each with its match_type
WithType(groups, mt) ==
    {[match_type |-> mt, api |-> g.api, erp |-> g.erp] : g \in groups}

reconcile_by_description(api_df, erp_df) ==
    LET many_to_many_sig == match_many_to_many_by_signature(api_df, erp_df)
        full == match_full_group_by_description(api_df, erp_df,
                                                GroupTxs(many_to_many_sig))
        ksum == match_one_to_many_by_description(api_df, erp_df, full.matched)
    IN  WithType(many_to_many_sig, "01_DESC_MN_SIGNATURE")
        \cup WithType(full.groups, "02_DESC_FULL_1N")
        \cup ksum.groups

\* variant: the description stages are applied last to first
DESC_STAGE_ORDER_reversed ==
    << "03_DESC_KSUM_N1", "03_DESC_KSUM_1N", "02_DESC_FULL_1N", "01_DESC_MN_SIGNATURE" >>

DESC_STAGE_ORDER ==
    << "01_DESC_MN_SIGNATURE", "02_DESC_FULL_1N", "03_DESC_KSUM_1N", "03_DESC_KSUM_N1" >>

DESC_STAGE_PRIO == [mt \in SeqRange(DESC_STAGE_ORDER) |-> 9]

\* edges_by_type: (api_row_id, erp_row_id) pairs per match type; a type without
\* pairs (no key in the dict) has the empty set.  api_uid / erp_uid identify
\* the row, so api_map / erp_map send a Tx to its row id.
build_desc_edges(matches_df) ==
    [mt \in SeqRange(DESC_STAGE_ORDER) |->
        UNION {{<<a.idx, e.idx>> : a \in {x \in g.api : x.side = "api"},
                                   e \in {x \in g.erp : x.side = "erp"}}
               : g \in {x \in matches_df : x.match_type = mt}}]

(***************************************************************************)
(* transform(): the operators of the cascade.  A and E are the residual    *)
(* frames, held as sets of row ids; an edge is <<api_row_id, erp_row_id>>. *)
(***************************************************************************)
\* the join / window key of the RN 1:1 stages
\* variant: the rank groups do not separate the cents
RnKey_no_cents(df, id) ==
    LET r == RowOf(df, id)
    IN  <<r.tenant_id, r.bank_code, acc_tail(r), row_sign(r), r.date>>

RnKey(df, id) ==
    LET r == RowOf(df, id)
    IN  <<r.tenant_id, r.bank_code, acc_tail(r), row_sign(r), r.date, r.cents>>

rn_descending(df, S, id) ==
    1 + Cardinality({x \in S : RnKey(df, x) = RnKey(df, id) /\ x > id})

\* arange(1, len + 1) over the key, after the sort that ends with the row id
rn(df, S, id) ==
    1 + Cardinality({x \in S : RnKey(df, x) = RnKey(df, id) /\ x < id})

rn_join(api_df, erp_df, As, Es) ==
    {p \in As \X Es :
        /\ RnKey(api_df, p[1]) = RnKey(erp_df, p[2])
        /\ rn(api_df, As, p[1]) = rn(erp_df, Es, p[2])}

\* consume(): the rows appended to matches_parts and the two anti-joins
consume_add(x, stage, prio, ddiff_val) ==
    {[api_row_id |-> p[1], erp_row_id |-> p[2], stage |-> stage,
      prio |-> prio, ddiff |-> ddiff_val] : p \in x}

consume_A(As, x) == As \ {p[1] : p \in x}

consume_E_kept(Es, x) == Es

consume_E(Es, x) == Es \ {p[2] : p \in x}

\* ---- M2: solve_same_group ----
\* variant: the rows already used are not filtered out of the candidates
KsumCand_all(pool, used_p, cents) == FilterAbsLe(pool, cents)

\* lines 639-640 / 666-667: the unused rows of the other side, |cents| <= |target|
KsumCand(pool, used_p, cents) ==
    FilterAbsLe(SelectSeq(pool, LAMBDA it : it[1] \notin used_p), cents)

\* variant: a target of zero cents is not skipped
KsumSkip_used_only(tid, cents, used_t) == tid \in used_t

\* lines 637 / 664: "if erp_id in used_erp or cents == 0: continue"
KsumSkip(tid, cents, used_t) == tid \in used_t \/ cents = 0

\* one pass over the targets; st = [used_api, used_erp, links, searched],
\* searched being the targets (side, id) that got past the skip test
RECURSIVE KsumPass(_, _, _, _)
KsumPass(side, targets, pool, st) ==
    IF targets = <<>> THEN st
    ELSE LET tid == Head(targets)[1]
             cents == Head(targets)[2]
             used_t == IF side = "ERP" THEN st.used_erp ELSE st.used_api
             used_p == IF side = "ERP" THEN st.used_api ELSE st.used_erp
             cand == KsumCand(pool, used_p, cents)
             sol == SolveTarget(cents, cand)
             got == SeqRange(sol.ids)
             seen == [st EXCEPT !.searched = @ \cup {<<side, tid>>}]
         IN  IF KsumSkip(tid, cents, used_t)
             THEN KsumPass(side, Tail(targets), pool, st)
             ELSE IF ~sol.found
             THEN KsumPass(side, Tail(targets), pool, seen)
             ELSE KsumPass(side, Tail(targets), pool,
                    IF side = "ERP"
                    THEN [seen EXCEPT !.used_api = @ \cup got,
                                      !.used_erp = @ \cup {tid},
                                      !.links = @ \cup {<<a, tid>> : a \in got}]
                    ELSE [seen EXCEPT !.used_api = @ \cup {tid},
                                      !.used_erp = @ \cup got,
                                      !.links = @ \cup {<<tid, e>> : e \in got}])

FirstN(sq, n) == SubSeq(sq, 1, Min2(n, Len(sq)))

NoLinks == [used_api |-> {}, used_erp |-> {}, links |-> {}, searched |-> {}]

\* lines 613-619: the trim of a group larger than MAX_GROUP_GUARD
GroupTrim(rows, big) ==
    IF big THEN FirstN(SortByAbsDesc(rows, <<>>), KSUM_MAX_ITEMS) ELSE rows

\* variant: the 1:N pass runs before the N:1 pass
solve_same_group_1n_first(apis0, erps0) ==
    IF apis0 = <<>> \/ erps0 = <<>> THEN {}
    ELSE LET big == Len(apis0) + Len(erps0) > MAX_GROUP_GUARD
             apis == GroupTrim(apis0, big)
             erps == GroupTrim(erps0, big)
             one_n == KsumPass("API", apis, erps, NoLinks)
         IN  KsumPass("ERP", erps, apis, one_n).links

\* apis / erps: the <<row id, cents>> of the group in the order unique() left
solve_same_group(apis0, erps0) ==
    IF apis0 = <<>> \/ erps0 = <<>> THEN {}
    ELSE LET big == Len(apis0) + Len(erps0) > MAX_GROUP_GUARD
             apis == GroupTrim(apis0, big)
             erps == GroupTrim(erps0, big)
             n1 == KsumPass("ERP", erps, apis, NoLinks)
         IN  KsumPass("API", apis, erps, n1).links

SameKey(df, id) ==
    LET r == RowOf(df, id)
    IN  <<r.tenant_id, r.bank_code, acc_tail(r), row_sign(r), r.date>>

WithCents(df, order) == [k \in 1..Len(order) |-> <<order[k], RowOf(df, order[k]).cents>>]

\* apply_per_group over same_keys; order_a / order_e list the residual ids in
\* the row order that unique() produced
m2_same(api_df, erp_df, order_a, order_e) ==
    LET keys == {SameKey(api_df, a) : a \in SeqRange(order_a)}
                \cup {SameKey(erp_df, e) : e \in SeqRange(order_e)}
        ga(k) == SelectSeq(order_a, LAMBDA a : SameKey(api_df, a) = k)
        ge(k) == SelectSeq(order_e, LAMBDA e : SameKey(erp_df, e) = k)
    IN  UNION {solve_same_group(WithCents(api_df, ga(k)), WithCents(erp_df, ge(k)))
               : k \in keys}

\* ---- 07_FALLBACK_BALANCE_DAY ----
RECURSIVE SumCents(_, _)
SumCents(df, S) ==
    IF S = {} THEN 0
    ELSE LET x == CHOOSE y \in S : TRUE
         IN  RowOf(df, x).cents + SumCents(df, S \ {x})

\* variant: the cross-product of every shared partition, balanced or not
fb_edges_unbalanced(api_df, erp_df, As, Es) ==
    {p \in As \X Es : SameKey(api_df, p[1]) = SameKey(erp_df, p[2])}

fb_edges(api_df, erp_df, As, Es) ==
    LET ga(k) == {a \in As : SameKey(api_df, a) = k}
        ge(k) == {e \in Es : SameKey(erp_df, e) = k}
        fb_keys == {k \in {SameKey(api_df, a) : a \in As}
                            \cap {SameKey(erp_df, e) : e \in Es} :
                        SumCents(api_df, ga(k)) = SumCents(erp_df, ge(k))}
    IN  UNION {ga(k) \X ge(k) : k \in fb_keys}

\* ---- union, validation, unreconciled ----
PairOf(m) == <<m.api_row_id, m.erp_row_id>>

Concat(parts) == UNION SeqRange(parts)

\* matches.unique(subset = [api_row_id, erp_row_id]): one row per pair, and
\* polars leaves open which of the rows of a pair it keeps (keep = "any")
UniqueBySubset(rows) ==
    {S \in SUBSET rows :
        \A m \in rows : Cardinality({k \in S : PairOf(k) = PairOf(m)}) = 1}

CentsMap(df) == [id \in RowIds(df) |-> RowOf(df, id).cents]

validated(ms, api_df, erp_df) ==
    LET kept == finalize_by_components({PairOf(m) : m \in ms},
                                       CentsMap(api_df), CentsMap(erp_df))
    IN  {m \in ms : PairOf(m) \in kept}

anti_join_all(ids, used) == ids

\* A0.join(matches ids, how = "anti")
anti_join(ids, used) == ids \ used

(***************************************************************************)
(* DAILY / MONTHLY (transform, lines 2027-2181).  Amounts are cents, so    *)
(* round(2) of an amount is rounding to a whole number of cents.  What     *)
(* round() does with an exact half depends on the polars version (half     *)
(* away from zero, or half to even), so it is left open per run.           *)
(***************************************************************************)
DATE_FROM == 4
DATE_TO == 7

RoundModes == {"half_away", "half_even"}

\* <<q, r>> with a * b = q * c + r and 0 <= r < c, for a, b >= 0 and c > 0,
\* computed without forming the product a * b
RECURSIVE MulDiv(_, _, _)
MulDiv(a, b, c) ==
    IF b = 0 THEN <<0, 0>>
    ELSE LET h == MulDiv(a, b \div 2, c)
             carry == IF 2 * h[2] >= c THEN 1 ELSE 0
             q2 == 2 * h[1] + carry
             r2 == 2 * h[2] - carry * c
             r3 == r2 + (a % c)
         IN  IF b % 2 = 0 THEN <<q2, r2>>
             ELSE IF r3 >= c THEN <<q2 + (a \div c) + 1, r3 - c>>
             ELSE <<q2 + (a \div c), r3>>

\* round(a * b / c) to a whole number
round_div(a, b, c, mode) ==
    LET qr == MulDiv(a, b, c)
        q == qr[1]
        r == qr[2]
    IN  IF 2 * r < c THEN q
        ELSE IF 2 * r > c THEN q + 1
        ELSE IF mode = "half_away" \/ q % 2 = 1 THEN q + 1 ELSE q

\* the (tenant_id, bank_code, acc_tail) of a row
DimOf(df, id) ==
    LET r == RowOf(df, id) IN <<r.tenant_id, r.bank_code, acc_tail(r)>>

\* pair: the surviving edges joined with A1 and E1
pair(ms) == {PairOf(m) : m \in ms}

\* weights: sum_erp_abs per api_row_id
weights(erp_df, pr, a) ==
    LET es == {p \in pr : p[1] = a}
    IN  SumOver(es, [p \in es |-> Abs(RowOf(erp_df, p[2]).cents)])

\* pair_w: api_contrib_abs of one edge
api_contrib_abs(api_df, erp_df, pr, p, mode) ==
    LET sum_erp_abs == weights(erp_df, pr, p[1])
    IN  IF sum_erp_abs > 0
        THEN round_div(Abs(RowOf(erp_df, p[2]).cents), Abs(RowOf(api_df, p[1]).cents),
                       sum_erp_abs, mode)
        ELSE 0

\* group_by([tenant_id, bank_code, acc_tail, date]).agg(sum): a function from
\* the keys that occur to the sum of val over the rows of the key
GroupSum(rows, key, val) ==
    LET keys == {key[x] : x \in rows}
    IN  [k \in keys |-> SumOver({x \in rows : key[x] = k}, val)]

\* tenant_id, bank_code and acc_tail are the API row's, date is the ERP row's
m_api_daily(api_df, erp_df, pr, mode) ==
    GroupSum(pr,
             [p \in pr |-> <<DimOf(api_df, p[1]), RowOf(erp_df, p[2]).date>>],
             [p \in pr |-> api_contrib_abs(api_df, erp_df, pr, p, mode)])

m_erp_daily(erp_df, pr) ==
    LET ids == {p[2] : p \in pr}
    IN  GroupSum(ids,
                 [e \in ids |-> <<DimOf(erp_df, e), RowOf(erp_df, e).date>>],
                 [e \in ids |-> Abs(RowOf(erp_df, e).cents)])

\* u_api_daily and u_erp_daily
u_daily(df, unrec) ==
    GroupSum(unrec,
             [x \in unrec |-> <<DimOf(df, x), RowOf(df, x).date>>],
             [x \in unrec |-> Abs(RowOf(df, x).cents)])

\* a left join on the key followed by fill_null(0.0)
FillNull(agg, k) == IF k \in DOMAIN agg THEN agg[k] ELSE 0

dates == DATE_FROM..DATE_TO

daily_of(api_df, erp_df, ms, un_api, un_erp, mode) ==
    LET pr == pair(ms)
        m_api == m_api_daily(api_df, erp_df, pr, mode)
        m_erp == m_erp_daily(erp_df, pr)
        u_api == u_daily(api_df, un_api)
        u_erp == u_daily(erp_df, un_erp)
        spine_dim == {k[1] : k \in DOMAIN m_api} \cup {k[1] : k \in DOMAIN m_erp}
                     \cup {DimOf(api_df, a) : a \in un_api}
                     \cup {DimOf(erp_df, e) : e \in un_erp}
    IN  IF pr = {} THEN {}
        ELSE {[tenant_id |-> sp[1][1], bank_code |-> sp[1][2], acc_tail |-> sp[1][3],
               date |-> sp[2],
               api_matched_abs |-> FillNull(m_api, sp),
               erp_matched_abs |-> FillNull(m_erp, sp),
               api_unrec_abs |-> FillNull(u_api, sp),
               erp_unrec_abs |-> FillNull(u_erp, sp),
               unrec_total_abs |-> FillNull(u_api, sp) + FillNull(u_erp, sp),
               unrec_diff |-> FillNull(u_erp, sp) - FillNull(u_api, sp)]
              : sp \in spine_dim \X dates}

\* dt.truncate("1mo") on a calendar of 28-day months
month_of(d) == d - (d % 28)

monthly_of(dl) ==
    LET key == [r \in dl |-> <<r.tenant_id, r.bank_code, r.acc_tail, month_of(r.date)>>]
    IN  {[tenant_id |-> k[1], bank_code |-> k[2], acc_tail |-> k[3], month |-> k[4],
          api_matched_abs |->
              SumOver({r \in dl : key[r] = k}, [r \in dl |-> r.api_matched_abs]),
          erp_matched_abs |->
              SumOver({r \in dl : key[r] = k}, [r \in dl |-> r.erp_matched_abs]),
          api_unrec_abs |->
              SumOver({r \in dl : key[r] = k}, [r \in dl |-> r.api_unrec_abs]),
          erp_unrec_abs |->
              SumOver({r \in dl : key[r] = k}, [r \in dl |-> r.erp_unrec_abs]),
          unrec_total_abs |->
              SumOver({r \in dl : key[r] = k}, [r \in dl |-> r.unrec_total_abs])]
         : k \in {key[r] : r \in dl}}

(***************************************************************************)
(* main(): one run over the rows read from the two silver tables.          *)
(* The rows are drawn from a catalogue that holds, for every stage, rows   *)
(* the stage matches: equal-cents rows, flagged rows (tax, bank fees,      *)
(* rent), rows with a description, amounts at the description stages'      *)
(* threshold, rows of zero cents, an empty account number and an account   *)
(* number written with a leading zero and a separator.  Day 4 is a Friday, *)
(* day 7 the Monday after it.                                              *)
(***************************************************************************)
\* rows read per table
NApi == 2
NErp == 2

ApiRow(acc, d, c, categoryid, operationtype, text) ==
    [tenant_id |-> TENANT, bank_code |-> "341", account_number |-> acc,
     date |-> d, cents |-> c, categoryid |-> categoryid,
     operationtype |-> operationtype, text |-> text]

ErpRow(acc, d, c, text) ==
    [tenant_id |-> TENANT, bank_code |-> "341", account_number |-> acc,
     date |-> d, cents |-> c, text |-> text]

TextAcme == <<"PIX", "ACME", "123", "SILVA">>
TextSilva == <<"SILVA", "ACME", "NF">>
\* the descriptions of the "description anchor" scenario
TextFornecedor == <<"PAGAMENTO", "FORNECEDOR", "ACME", "NF", "7823">>
TextNf == <<"ACME", "NF", "7823">>
TextJuros == <<"ACME", "JUROS", "NF", "7823">>

ScenarioApi == ApiRow(<<1, 1>>, 4, 15000000, "", "", TextFornecedor)
ScenarioErp9 == ErpRow(<<1, 1>>, 4, 10000000, TextNf)
ScenarioErp10 == ErpRow(<<1, 1>>, 4, 5000000, TextJuros)

ApiKinds ==
    {ApiRow(<<1, 1>>, 4, c, "", "", <<>>) : c \in {1, 2, 3, -2}}
    \cup {ApiRow(<<1, 1>>, 4, 1, "15030000", "", TextAcme),
          ApiRow(<<1, 1>>, 4, 1, "16000000", "", <<>>),
          ApiRow(<<1, 1>>, 4, 1, "", "RENDIMENTO_APLIC_FINANCEIRA", <<>>),
          ApiRow(<<1, 1>>, 4, 1, "03060000", "", <<>>),
          ApiRow(<<1, 1>>, 4, 2, "", "", TextAcme),
          ApiRow(<<2, 2>>, 4, 1, "", "", <<>>),
          ApiRow(<<>>, 4, DESC_MIN_AMOUNT_CENTS, "", "", TextAcme),
          ApiRow(<<1, 1>>, 4, DESC_MIN_AMOUNT_CENTS, "", "", TextAcme),
          ApiRow(<<1, 1>>, 4, DESC_MIN_AMOUNT_CENTS \div 2, "", "", TextAcme),
          ApiRow(<<1, 1>>, 4, 0, "", "", TextAcme),
          ScenarioApi}

ErpKinds ==
    {ErpRow(<<1, 1>>, 4, c, <<>>) : c \in {1, 2, 3, -2}}
    \cup {ErpRow(<<0, 1, -1, 1>>, 4, 1, TextAcme),
          ErpRow(<<1, 1>>, 4, 3, TextAcme),
          ErpRow(<<1, 1>>, 4, DESC_MIN_AMOUNT_CENTS, TextSilva),
          ErpRow(<<1, 1>>, 7, DESC_MIN_AMOUNT_CENTS, TextSilva),
          ErpRow(<<1, 1>>, 4, DESC_MIN_AMOUNT_CENTS \div 2, TextSilva),
          ErpRow(<<1, 1>>, 4, 0, TextAcme),
          ScenarioErp9, ScenarioErp10}

SeqsUpTo(S, n) == UNION {[1..k -> S] : k \in 0..n}

NoDescEdges == [mt \in SeqRange(DESC_STAGE_ORDER) |-> {}]

Init ==
    /\ ssIdle /\ ccIdle /\ dfIdle
    /\ pc = "main"
    /\ A0 \in SeqsUpTo(ApiKinds, NApi)
    /\ E0 \in SeqsUpTo(ErpKinds, NErp)
    /\ desc_edges_by_type = NoDescEdges
    /\ mt_i = 0
    /\ A = {} /\ E = {}
    /\ matches_parts = <<>> /\ matches = {}
    /\ unrec_api = {} /\ unrec_erp = {}
    /\ m2_apis = <<>> /\ m2_erps = <<>>
    /\ daily = {} /\ monthly = {}

\* the effect of consume(tag_df, stage, prio, ddiff_val) on A, E, matches_parts
Consume(As, Es, x, stage, prio, ddiff_val) ==
    IF x = {}
    THEN /\ A' = As /\ E' = Es
         /\ UNCHANGED matches_parts
    ELSE /\ matches_parts' = Append(matches_parts, consume_add(x, stage, prio, ddiff_val))
         /\ A' = consume_A(As, x)
         /\ E' = consume_E(Es, x)

\* main, lines 2292-2320: the description matchers run on the rows as read
MainDesc ==
    /\ pc = "main"
    /\ desc_edges_by_type' = build_desc_edges(reconcile_by_description(A0, E0))
    /\ pc' = "transform"
    /\ UNCHANGED <<A0, E0, mt_i, A, E, matches_parts, matches, unrec_api, unrec_erp,
                   ssVars, ccVars, dfVars, m2Vars, aggVars>>

\* transform, lines 1591-1592
TransformEmpty ==
    /\ pc = "transform"
    /\ A0 = <<>> /\ E0 = <<>>
    /\ matches' = {} /\ unrec_api' = {} /\ unrec_erp' = {}
    /\ daily' = {} /\ monthly' = {}
    /\ pc' = "done"
    /\ UNCHANGED <<A0, E0, desc_edges_by_type, mt_i, A, E, matches_parts,
                   ssVars, ccVars, dfVars, m2Vars>>

\* transform, lines 1594-1705: A and E start as all rows
M0Tax ==
    /\ pc = "transform"
    /\ ~(A0 = <<>> /\ E0 = <<>>)
    /\ Consume(RowIds(A0), RowIds(E0),
               rn_join(A0, E0, {a \in RowIds(A0) : api_is_tax(RowOf(A0, a))}, RowIds(E0)),
               "M0_TAX_DMINUS1_RN_1TO1", 5, 1)
    /\ pc' = "m0_bankfees"
    /\ UNCHANGED <<A0, E0, desc_edges_by_type, mt_i, matches, unrec_api, unrec_erp,
                   ssVars, ccVars, dfVars, m2Vars, aggVars>>

M0Bankfees ==
    /\ pc = "m0_bankfees"
    /\ Consume(A, E, rn_join(A0, E0, {a \in A : api_is_bankfees(RowOf(A0, a))}, E),
               "M0_BANKFEES_DMINUS1_RN_1TO1", 6, 1)
    /\ pc' = "m0_rent"
    /\ UNCHANGED <<A0, E0, desc_edges_by_type, mt_i, matches, unrec_api, unrec_erp,
                   ssVars, ccVars, dfVars, m2Vars, aggVars>>

M0Rent ==
    /\ pc = "m0_rent"
    /\ Consume(A, E, rn_join(A0, E0, {a \in A : api_is_rent_d1(RowOf(A0, a))}, E),
               "M0_RENT_DMINUS1_RN_1TO1", 7, 1)
    /\ pc' = "desc"
    /\ mt_i' = 1
    /\ UNCHANGED <<A0, E0, desc_edges_by_type, matches, unrec_api, unrec_erp,
                   ssVars, ccVars, dfVars, m2Vars, aggVars>>

\* transform, lines 1787-1809: one iteration of "for mt in DESC_STAGE_ORDER";
\* the ids are filtered against the alive rows only while both A and E are
\* non-empty
DescStage ==
    /\ pc = "desc"
    /\ LET mt == DESC_STAGE_ORDER[mt_i]
           edges_df == desc_edges_by_type[mt]
           df_stage == IF A # {} /\ E # {}
                       THEN {p \in edges_df : p[1] \in A /\ p[2] \in E}
                       ELSE edges_df
       IN  Consume(A, E, df_stage, mt, DESC_STAGE_PRIO[mt], 0)
    /\ IF mt_i < Len(DESC_STAGE_ORDER)
       THEN mt_i' = mt_i + 1 /\ pc' = "desc"
       ELSE mt_i' = 0 /\ pc' = "m1"
    /\ UNCHANGED <<A0, E0, desc_edges_by_type, matches, unrec_api, unrec_erp,
                   ssVars, ccVars, dfVars, m2Vars, aggVars>>

M1 ==
    /\ pc = "m1"
    /\ Consume(A, E, rn_join(A0, E0, A, E), "M1_SAME_DAY_RN", 10, 0)
    /\ pc' = "m2"
    /\ UNCHANGED <<A0, E0, desc_edges_by_type, mt_i, matches, unrec_api, unrec_erp,
                   ssVars, ccVars, dfVars, m2Vars, aggVars>>

\* transform, lines 1847-1879; the row order inside a group is the one that
\* unique() leaves, which polars does not fix.  m2_apis and m2_erps hold the
\* order in which solve_same_group reads the rows of apis and erps.
M2 ==
    /\ pc = "m2"
    /\ IF A # {} /\ E # {}
       THEN \E order_a \in Orders({a \in A : ~api_is_rent(RowOf(A0, a))}),
               order_e \in Orders(E) :
               /\ Consume(A, E, m2_same(A0, E0, order_a, order_e),
                          "M2_KSUM_SAME_DAY", 20, 0)
               /\ m2_apis' = order_a /\ m2_erps' = order_e
       ELSE /\ Consume(A, E, {}, "M2_KSUM_SAME_DAY", 20, 0)
            /\ UNCHANGED m2Vars
    /\ pc' = "fallback"
    /\ UNCHANGED <<A0, E0, desc_edges_by_type, mt_i, matches, unrec_api, unrec_erp,
                   ssVars, ccVars, dfVars, aggVars>>

\* transform, lines 1882-1978; the frames of solve_same_group are gone
Fallback ==
    /\ pc = "fallback"
    /\ Consume(A, E, IF A # {} /\ E # {} THEN fb_edges(A0, E0, A, E) ELSE {},
               "07_FALLBACK_BALANCE_DAY", 30, 0)
    /\ m2_apis' = <<>> /\ m2_erps' = <<>>
    /\ pc' = "union"
    /\ UNCHANGED <<A0, E0, desc_edges_by_type, mt_i, matches, unrec_api, unrec_erp,
                   ssVars, ccVars, dfVars, aggVars>>

\* transform, lines 1980-1993
UnionDedup ==
    /\ pc = "union"
    /\ matches' \in UniqueBySubset(Concat(matches_parts))
    /\ pc' = "validate"
    /\ UNCHANGED <<A0, E0, desc_edges_by_type, mt_i, A, E, matches_parts,
                   unrec_api, unrec_erp, ssVars, ccVars, dfVars, m2Vars, aggVars>>

\* transform, line 1996
Validate ==
    /\ pc = "validate"
    /\ matches' = validated(matches, A0, E0)
    /\ pc' = "unrec"
    /\ UNCHANGED <<A0, E0, desc_edges_by_type, mt_i, A, E, matches_parts,
                   unrec_api, unrec_erp, ssVars, ccVars, dfVars, m2Vars, aggVars>>

\* transform, lines 1999-2024
Unrec ==
    /\ pc = "unrec"
    /\ unrec_api' = anti_join(RowIds(A0), {m.api_row_id : m \in matches})
    /\ unrec_erp' = anti_join(RowIds(E0), {m.erp_row_id : m \in matches})
    /\ pc' = "daily"
    /\ UNCHANGED <<A0, E0, desc_edges_by_type, mt_i, A, E, matches_parts, matches,
                   ssVars, ccVars, dfVars, m2Vars, aggVars>>

\* transform, lines 2027-2181
DailyMonthly ==
    /\ pc = "daily"
    /\ \E mode \in RoundModes :
          /\ daily' = daily_of(A0, E0, matches, unrec_api, unrec_erp, mode)
          /\ monthly' = monthly_of(daily')
    /\ pc' = "done"
    /\ UNCHANGED <<A0, E0, desc_edges_by_type, mt_i, A, E, matches_parts, matches,
                   unrec_api, unrec_erp, ssVars, ccVars, dfVars, m2Vars>>

Next ==
    \/ MainDesc \/ TransformEmpty \/ M0Tax \/ M0Bankfees \/ M0Rent \/ DescStage
    \/ M1 \/ M2 \/ Fallback \/ UnionDedup \/ Validate \/ Unrec \/ DailyMonthly

Spec == Init /\ [][Next]_vars

(***************************************************************************)
(* Properties of the cascade                                               *)
(***************************************************************************)
Candidates == Concat(matches_parts)
ApiEnds(ms) == {m.api_row_id : m \in ms}
ErpEnds(ms) == {m.erp_row_id : m \in ms}
PartStage(k) == (CHOOSE m \in matches_parts[k] : TRUE).stage
EarlierParts(k) == UNION {matches_parts[j] : j \in 1..(k - 1)}
DescStages == SeqRange(DESC_STAGE_ORDER)
RnStages == {"M0_TAX_DMINUS1_RN_1TO1", "M0_BANKFEES_DMINUS1_RN_1TO1",
             "M0_RENT_DMINUS1_RN_1TO1", "M1_SAME_DAY_RN"}
ExclusiveStages == RnStages \cup {"M2_KSUM_SAME_DAY", "07_FALLBACK_BALANCE_DAY"}

\* C3: at the end of a run every row of A0 is an endpoint of a surviving edge
\* or listed in unrec_api, never both and never neither; likewise E0 and
\* unrec_erp; the rows of every rejected candidate edge are listed.
C3_MatchedOrUnreconciled ==
    pc = "done" =>
        /\ unrec_api \subseteq RowIds(A0) /\ unrec_erp \subseteq RowIds(E0)
        /\ \A a \in RowIds(A0) : (a \in ApiEnds(matches)) # (a \in unrec_api)
        /\ \A e \in RowIds(E0) : (e \in ErpEnds(matches)) # (e \in unrec_erp)
        /\ \A m \in Candidates :
              PairOf(m) \notin {PairOf(k) : k \in matches}
                  => m.api_row_id \in unrec_api /\ m.erp_row_id \in unrec_erp

C3_Witness ==
    /\ pc = "done"
    /\ matches # {}
    /\ \E m \in Candidates : PairOf(m) \notin {PairOf(k) : k \in matches}
    /\ unrec_api # {} /\ unrec_erp # {}

\* C4: in the candidate edge list no API row and no ERP row is an endpoint of
\* edges tagged with two different stages among M0_TAX, M0_BANKFEES, M0_RENT,
\* M1_SAME_DAY_RN, M2_KSUM_SAME_DAY and 07_FALLBACK_BALANCE_DAY.
C4_StageExclusivity ==
    \A m1, m2 \in Candidates :
        (m1.stage \in ExclusiveStages /\ m2.stage \in ExclusiveStages
         /\ m1.stage # m2.stage)
            => m1.api_row_id # m2.api_row_id /\ m1.erp_row_id # m2.erp_row_id

C4_Witness ==
    \E m1, m2 \in Candidates :
        /\ m1.stage = "M0_TAX_DMINUS1_RN_1TO1" /\ m2.stage = "M1_SAME_DAY_RN"
        /\ RnKey(E0, m1.erp_row_id) = RnKey(E0, m2.erp_row_id)

\* C5: every edge appended by a description stage has its API row and its
\* ERP row unconsumed when the stage is applied (neither is an endpoint of an
\* edge appended before), whatever the residual sets are.
C5_DescEdgesUnconsumed ==
    \A k \in DOMAIN matches_parts :
        PartStage(k) \in DescStages =>
            \A m \in matches_parts[k] :
                /\ m.api_row_id \notin ApiEnds(EarlierParts(k))
                /\ m.erp_row_id \notin ErpEnds(EarlierParts(k))

\* the first row of a pair in cascade order
FirstEmitted(p) ==
    LET k == MinOf({j \in DOMAIN matches_parts :
                       p \in {PairOf(m) : m \in matches_parts[j]}})
    IN  CHOOSE m \in matches_parts[k] : PairOf(m) = p

\* C6: after the de-duplication each pair has exactly one edge, and it carries
\* the stage, prio and ddiff of the stage that emitted the pair first.
C6_FirstEmitterWins ==
    pc = "validate" =>
        \A p \in {PairOf(m) : m \in Candidates} :
            {m \in matches : PairOf(m) = p} = {FirstEmitted(p)}

\* C7: every emitted edge joins an API row and an ERP row of the same
\* tenant_id, bank_code and acc_tail, the edges of the description stages for
\* rows with an empty account number included.
C7_EdgesWithinAccount ==
    \A m \in Candidates \cup matches :
        LET ra == RowOf(A0, m.api_row_id)
            re == RowOf(E0, m.erp_row_id)
        IN  /\ ra.tenant_id = re.tenant_id
            /\ ra.bank_code = re.bank_code
            /\ acc_tail(ra) = acc_tail(re)

\* the stages in cascade order, and the control points at which a stage of
\* the RN family has not run yet
CascadeOrder ==
    << "M0_TAX_DMINUS1_RN_1TO1", "M0_BANKFEES_DMINUS1_RN_1TO1",
       "M0_RENT_DMINUS1_RN_1TO1" >> \o DESC_STAGE_ORDER
    \o << "M1_SAME_DAY_RN", "M2_KSUM_SAME_DAY", "07_FALLBACK_BALANCE_DAY" >>

CascadeRank(stage) == CHOOSE k \in DOMAIN CascadeOrder : CascadeOrder[k] = stage

NotYetRun(stage) ==
    CASE stage = "M0_TAX_DMINUS1_RN_1TO1" -> {"main", "transform"}
      [] stage = "M0_BANKFEES_DMINUS1_RN_1TO1" -> {"main", "transform", "m0_bankfees"}
      [] stage = "M0_RENT_DMINUS1_RN_1TO1" ->
             {"main", "transform", "m0_bankfees", "m0_rent"}
      [] OTHER -> {"main", "transform", "m0_bankfees", "m0_rent", "desc", "m1"}

PartsBefore(stage) ==
    UNION {matches_parts[k] : k \in {j \in DOMAIN matches_parts :
                                        CascadeRank(PartStage(j)) < CascadeRank(stage)}}

\* the residual rows a stage reads: those no earlier stage consumed
ResidualApi(stage) == RowIds(A0) \ ApiEnds(PartsBefore(stage))
ResidualErp(stage) == RowIds(E0) \ ErpEnds(PartsBefore(stage))

EligibleApi(stage) ==
    {a \in ResidualApi(stage) :
        CASE stage = "M0_TAX_DMINUS1_RN_1TO1" -> api_is_tax(RowOf(A0, a))
          [] stage = "M0_BANKFEES_DMINUS1_RN_1TO1" -> api_is_bankfees(RowOf(A0, a))
          [] stage = "M0_RENT_DMINUS1_RN_1TO1" -> api_is_rent_d1(RowOf(A0, a))
          [] OTHER -> TRUE}

\* rank i of the one side with rank i of the other, for i up to the shorter
RankPairs(As, Es) ==
    {<<Ascending(As)[i], Ascending(Es)[i]>> :
        i \in 1..Min2(Cardinality(As), Cardinality(Es))}

ExpectedRnEdges(stage) ==
    LET As == EligibleApi(stage)
        Es == ResidualErp(stage)
        keys == {RnKey(A0, a) : a \in As} \cup {RnKey(E0, e) : e \in Es}
    IN  UNION {RankPairs({a \in As : RnKey(A0, a) = k}, {e \in Es : RnKey(E0, e) = k})
               : k \in keys}

StageEdges(stage) == {PairOf(m) : m \in {x \in Candidates : x.stage = stage}}

\* C10: each RN 1:1 stage pairs, inside every group of residual rows with the
\* same (tenant_id, bank_code, acc_tail, sign, date, cents), the API row of
\* rank i by api_row_id with the ERP row of rank i by erp_row_id, emits
\* min(eligible API rows, ERP rows) edges for the group, and uses no row twice.
C10_RnStagesPairByRank ==
    \A stage \in RnStages :
        pc \notin NotYetRun(stage) =>
            /\ StageEdges(stage) = ExpectedRnEdges(stage)
            /\ \A p, q \in StageEdges(stage) :
                  p # q => p[1] # q[1] /\ p[2] # q[2]

C10_Witness ==
    /\ pc = "done"
    /\ \E stage \in RnStages : \E p \in StageEdges(stage) :
          Cardinality({a \in EligibleApi(stage) : RnKey(A0, a) = RnKey(A0, p[1])}) >= 2

(***************************************************************************)
(* The description matchers and the residual set                           *)
(***************************************************************************)
M0Stages == {"M0_TAX_DMINUS1_RN_1TO1", "M0_BANKFEES_DMINUS1_RN_1TO1",
             "M0_RENT_DMINUS1_RN_1TO1"}

M0Parts == {m \in Candidates : m.stage \in M0Stages}

M0Done == pc \notin {"main", "transform", "m0_bankfees", "m0_rent"}

\* the rows the description matchers put into a group of type mt
DescGroupApi(mt) == {p[1] : p \in desc_edges_by_type[mt]}
DescGroupErp(mt) == {p[2] : p \in desc_edges_by_type[mt]}

\* C11: the description matchers read only the residual set: no row consumed
\* by M0_TAX, M0_BANKFEES or M0_RENT is a member of a group (signature
\* cluster, full-group candidate sum, KSUM subset) the matchers balanced.
C11_DescReadsResidual ==
    M0Done =>
        \A mt \in DescStages :
            /\ DescGroupApi(mt) \cap ApiEnds(M0Parts) = {}
            /\ DescGroupErp(mt) \cap ErpEnds(M0Parts) = {}

(***************************************************************************)
(* ddiff                                                                   *)
(***************************************************************************)
\* erp_date minus api_date counted in business days
BusinessDayDiff(api_date, erp_date) ==
    IF erp_date >= api_date
    THEN Cardinality({d \in (api_date + 1)..erp_date : ~is_weekend(d)})
    ELSE 0 - Cardinality({d \in (erp_date + 1)..api_date : ~is_weekend(d)})

EdgeDateDiff(m) ==
    BusinessDayDiff(RowOf(A0, m.api_row_id).date, RowOf(E0, m.erp_row_id).date)

\* C12: on every edge the recorded ddiff equals erp_date minus api_date of
\* its two rows in business days; it is 0 on the edges of the same-day
\* stages and +1 on the edges of the three M0 D-minus-1 stages.
C12_DdiffIsDateDifference ==
    \A m \in Candidates \cup matches :
        /\ m.ddiff = EdgeDateDiff(m)
        /\ m.ddiff = IF m.stage \in M0Stages THEN 1 ELSE 0

(***************************************************************************)
(* The "description anchor" scenario                                       *)
(***************************************************************************)
ScenarioInput == A0 = <<ScenarioApi>> /\ E0 = <<ScenarioErp9, ScenarioErp10>>

\* C13: for one API row of +150000.00 'PAGAMENTO FORNECEDOR ACME NF 7823' and
\* two ERP rows of +100000.00 'ACME NF 7823' and +50000.00 'ACME JUROS NF
\* 7823' on one date, account and bank, the run ends with exactly the two
\* edges from the API row to the two ERP rows, both of stage 02_DESC_FULL_1N.
C13_ScenarioEndsInDescFull ==
    (ScenarioInput /\ pc = "done") =>
        /\ {PairOf(m) : m \in matches} = {<<0, 0>>, <<0, 1>>}
        /\ \A m \in matches : m.stage = "02_DESC_FULL_1N"

\* what the run ends with on that input
C13_ScenarioEndsInKsum ==
    (ScenarioInput /\ pc = "done") =>
        /\ {PairOf(m) : m \in matches} = {<<0, 0>>, <<0, 1>>}
        /\ \A m \in matches : m.stage = "M2_KSUM_SAME_DAY" /\ m.prio = 20 /\ m.ddiff = 0
        /\ \A mt \in DescStages : desc_edges_by_type[mt] = {}

(***************************************************************************)
(* Anchor order                                                            *)
(***************************************************************************)
\* a list of <<row id, cents>> runs by |cents| descending, then row id ascending
ByAbsDescThenId(sq) ==
    \A i, j \in 1..Len(sq) :
        i < j => \/ Abs(sq[i][2]) > Abs(sq[j][2])
                 \/ Abs(sq[i][2]) = Abs(sq[j][2]) /\ sq[i][1] < sq[j][1]

TxPairs(txs) == [k \in 1..Len(txs) |-> <<txs[k].idx, TxRow(A0, E0, txs[k]).cents>>]

\* the anchors of 02_DESC_FULL_1N in the order the matcher tries them
FullAnchorOrder ==
    TxPairs(FullAnchors(A0, E0, GroupTxs(match_many_to_many_by_signature(A0, E0))))

\* the anchors of 03_DESC_KSUM_1N (side "api") and 03_DESC_KSUM_N1 (side "erp")
KsumAnchorOrder(side) ==
    TxPairs(SelectSeq(SortTxByAbsDesc(A0, E0, build_txs(A0, E0), <<>>),
                      LAMBDA tx : tx.side = side))

\* the targets of one partition of M2 in the order solve_same_group reads them
M2TargetOrder(df, order, k) ==
    WithCents(df, SelectSeq(order, LAMBDA id : SameKey(df, id) = k))

M2Keys ==
    {SameKey(A0, a) : a \in SeqRange(m2_apis)} \cup {SameKey(E0, e) : e \in SeqRange(m2_erps)}

DescAnchorsOrdered ==
    /\ ByAbsDescThenId(FullAnchorOrder)
    /\ ByAbsDescThenId(KsumAnchorOrder("api"))
    /\ ByAbsDescThenId(KsumAnchorOrder("erp"))

\* C14: in the description stages 02 and 03 and in both passes of
\* M2_KSUM_SAME_DAY the anchors (targets) are tried by |amount| descending
\* and, among equal |amount|, by row id ascending.
C14_AnchorsByAbsDescThenId ==
    /\ pc # "main" => DescAnchorsOrdered
    /\ pc = "fallback" =>
          \A k \in M2Keys :
              /\ ByAbsDescThenId(M2TargetOrder(E0, m2_erps, k))
              /\ ByAbsDescThenId(M2TargetOrder(A0, m2_apis, k))

(***************************************************************************)
(* Determinism: the run in which every unordered step delivers its rows    *)
(* in ascending row order and the de-duplication keeps the first row       *)
(***************************************************************************)
RefStep(st, x, stage, prio, ddiff_val) ==
    IF x = {} THEN st
    ELSE [A |-> consume_A(st.A, x), E |-> consume_E(st.E, x),
          parts |-> Append(st.parts, consume_add(x, stage, prio, ddiff_val))]

RECURSIVE RefDesc(_, _)
RefDesc(st, i) ==
    IF i > Len(DESC_STAGE_ORDER) THEN st
    ELSE LET mt == DESC_STAGE_ORDER[i]
             edges_df == desc_edges_by_type[mt]
             df_stage == IF st.A # {} /\ st.E # {}
                         THEN {p \in edges_df : p[1] \in st.A /\ p[2] \in st.E}
                         ELSE edges_df
         IN  RefDesc(RefStep(st, df_stage, mt, DESC_STAGE_PRIO[mt], 0), i + 1)

RefParts ==
    LET s0 == [A |-> RowIds(A0), E |-> RowIds(E0), parts |-> <<>>]
        s1 == RefStep(s0, rn_join(A0, E0, {a \in s0.A : api_is_tax(RowOf(A0, a))}, s0.E),
                      "M0_TAX_DMINUS1_RN_1TO1", 5, 1)
        s2 == RefStep(s1, rn_join(A0, E0, {a \in s1.A : api_is_bankfees(RowOf(A0, a))}, s1.E),
                      "M0_BANKFEES_DMINUS1_RN_1TO1", 6, 1)
        s3 == RefStep(s2, rn_join(A0, E0, {a \in s2.A : api_is_rent_d1(RowOf(A0, a))}, s2.E),
                      "M0_RENT_DMINUS1_RN_1TO1", 7, 1)
        s4 == RefDesc(s3, 1)
        s5 == RefStep(s4, rn_join(A0, E0, s4.A, s4.E), "M1_SAME_DAY_RN", 10, 0)
        s6 == RefStep(s5,
                      IF s5.A # {} /\ s5.E # {}
                      THEN m2_same(A0, E0,
                                   Ascending({a \in s5.A : ~api_is_rent(RowOf(A0, a))}),
                                   Ascending(s5.E))
                      ELSE {},
                      "M2_KSUM_SAME_DAY", 20, 0)
        s7 == RefStep(s6,
                      IF s6.A # {} /\ s6.E # {} THEN fb_edges(A0, E0, s6.A, s6.E) ELSE {},
                      "07_FALLBACK_BALANCE_DAY", 30, 0)
    IN  s7.parts

\* one row per pair: the row of the first batch that holds the pair
KeepFirst(parts) ==
    {m \in Concat(parts) :
        \A j \in DOMAIN parts : \A n \in parts[j] :
            PairOf(n) = PairOf(m) =>
                \E i \in 1..j : m \in parts[i]}

RefMatches == validated(KeepFirst(RefParts), A0, E0)

\* C15: two runs on the same A0, E0 and description inputs end with the same
\* surviving edges (stage, prio and ddiff included) and the same
\* unreconciled sets, whatever order the unordered steps deliver rows in:
\* every run ends as the run with ascending row order does.
C15_OutputsIndependentOfOrder ==
    pc = "done" =>
        /\ matches = RefMatches
        /\ unrec_api = RowIds(A0) \ ApiEnds(RefMatches)
        /\ unrec_erp = RowIds(E0) \ ErpEnds(RefMatches)

(***************************************************************************)
(* The daily output                                                        *)
(***************************************************************************)
\* the (tenant_id, bank_code, acc_tail) of the matched and unreconciled rows
OutputDims ==
    {DimOf(A0, a) : a \in ApiEnds(matches) \cup unrec_api}
    \cup {DimOf(E0, e) : e \in ErpEnds(matches) \cup unrec_erp}

DailyRows(dim, d) ==
    {r \in daily : <<r.tenant_id, r.bank_code, r.acc_tail>> = dim /\ r.date = d}

UnrecAbsOn(df, unrec, dim, d) ==
    LET S == {x \in unrec : DimOf(df, x) = dim /\ RowOf(df, x).date = d}
    IN  SumOver(S, [x \in S |-> Abs(RowOf(df, x).cents)])

DenseSpine ==
    /\ \A r \in daily :
          <<r.tenant_id, r.bank_code, r.acc_tail>> \in OutputDims /\ r.date \in dates
    /\ \A dim \in OutputDims : \A d \in dates :
          /\ Cardinality(DailyRows(dim, d)) = 1
          /\ \A r \in DailyRows(dim, d) :
                /\ r.api_unrec_abs = UnrecAbsOn(A0, unrec_api, dim, d)
                /\ r.erp_unrec_abs = UnrecAbsOn(E0, unrec_erp, dim, d)

\* C16: whenever at least one input row exists, the daily output holds exactly
\* one row for every (tenant_id, bank_code, acc_tail) of a matched or an
\* unreconciled row and every date of [DATE_FROM, DATE_TO], with api_unrec_abs
\* and erp_unrec_abs the sums of |amount| of that day's unreconciled rows,
\* also when no edge survives validation.
C16_DailyDenseSpine ==
    (pc = "done" /\ (A0 # <<>> \/ E0 # <<>>)) => DenseSpine

\* the total of api_matched_abs over the daily output, and the total |amount|
\* of the API rows that have a surviving edge
DailyApiMatchedTotal == SumOver(daily, [r \in daily |-> r.api_matched_abs])

MatchedApiAbsTotal ==
    SumOver(ApiEnds(matches), [a \in ApiEnds(matches) |-> Abs(RowOf(A0, a).cents)])

\* C17: summed over all rows of the daily output, api_matched_abs equals the
\* sum of |amount| over the API rows with a surviving edge: the weighted
\* split, rounded per share to two decimals, loses or adds nothing.
C17_ApiMatchedTotalPreserved ==
    pc = "done" => DailyApiMatchedTotal = MatchedApiAbsTotal

(***************************************************************************)
(* 07_FALLBACK_BALANCE_DAY                                                 *)
(***************************************************************************)
FallbackStage == "07_FALLBACK_BALANCE_DAY"

FallbackRan == pc \in {"union", "validate", "unrec", "daily", "done"}

\* the rows left after M2 that lie in the partition k
FbApi(k) == {a \in ResidualApi(FallbackStage) : SameKey(A0, a) = k}
FbErp(k) == {e \in ResidualErp(FallbackStage) : SameKey(E0, e) = k}

FbBalanced(k) ==
    SumOver(FbApi(k), [a \in FbApi(k) |-> RowOf(A0, a).cents])
        = SumOver(FbErp(k), [e \in FbErp(k) |-> RowOf(E0, e).cents])

\* C18: 07_FALLBACK_BALANCE_DAY emits the edge (a, e) if and only if a and e
\* are both residual after M2, lie in the same partition (tenant_id,
\* bank_code, acc_tail, sign, date) and the residual API cents of the
\* partition sum to its residual ERP cents; such a partition gets its full
\* cross-product.
C18_FallbackIffBalancedPartition ==
    FallbackRan =>
        \A a \in RowIds(A0), e \in RowIds(E0) :
            <<a, e>> \in StageEdges(FallbackStage)
                <=> /\ a \in ResidualApi(FallbackStage)
                    /\ e \in ResidualErp(FallbackStage)
                    /\ SameKey(A0, a) = SameKey(E0, e)
                    /\ FbBalanced(SameKey(A0, a))

C18_Witness ==
    /\ pc = "done"
    /\ Cardinality(StageEdges(FallbackStage)) = 4
    /\ \E a \in RowIds(A0), e \in RowIds(E0) : RowOf(A0, a).cents # RowOf(E0, e).cents

(***************************************************************************)
(* Balance of the emitted groups                                           *)
(***************************************************************************)
\* the group of an edge inside the edges of one stage: the API rows linked to
\* its ERP row and the ERP rows linked to its API row
GroupApiOf(edges, p) == {q[1] : q \in {x \in edges : x[2] = p[2]}}
GroupErpOf(edges, p) == {q[2] : q \in {x \in edges : x[1] = p[1]}}

GroupBalances(edges, p) ==
    SumOver(GroupApiOf(edges, p), [a \in GroupApiOf(edges, p) |-> RowOf(A0, a).cents])
        = SumOver(GroupErpOf(edges, p), [e \in GroupErpOf(edges, p) |-> RowOf(E0, e).cents])

\* C19: no stage emits a match group whose API total and ERP total differ by
\* a nonzero number of cents: the groups of 01_DESC_MN_SIGNATURE,
\* 02_DESC_FULL_1N and 03_DESC_KSUM_*, like those of the other stages,
\* balance exactly in integer cents when they are emitted.
C19_EmittedGroupsBalanceExactly ==
    /\ \A mt \in DescStages : \A p \in desc_edges_by_type[mt] :
          GroupBalances(desc_edges_by_type[mt], p)
    /\ \A stage \in ExclusiveStages : \A p \in StageEdges(stage) :
          GroupBalances(StageEdges(stage), p)

(***************************************************************************)
(* Termination.  main() is one sequential run: no step waits for another   *)
(* process, so a step that is enabled is eventually taken.                 *)
(***************************************************************************)
\* before main() has read the two tables (src/final.py:2274-2290)
InitLive ==
    /\ ssIdle /\ ccIdle /\ dfIdle
    /\ pc = "load"
    /\ A0 = <<>> /\ E0 = <<>>
    /\ desc_edges_by_type = NoDescEdges
    /\ mt_i = 0
    /\ A = {} /\ E = {}
    /\ matches_parts = <<>> /\ matches = {}
    /\ unrec_api = {} /\ unrec_erp = {}
    /\ m2_apis = <<>> /\ m2_erps = <<>>
    /\ daily = {} /\ monthly = {}

\* main: api_df = load_api_from_pg(), erp_df = load_erp_from_pg()
LoadTables ==
    /\ pc = "load"
    /\ A0' \in SeqsUpTo(ApiKinds, NApi)
    /\ E0' \in SeqsUpTo(ErpKinds, NErp)
    /\ pc' = "main"
    /\ UNCHANGED <<desc_edges_by_type, mt_i, A, E, matches_parts, matches,
                   unrec_api, unrec_erp, ssVars, ccVars, dfVars, m2Vars, aggVars>>

NextLive == LoadTables \/ Next

\* control leaves the point it is at.  Every step of NextLive moves pc, and at
\* every point but "done" a step is possible (each handler is total), so this
\* is the progress of the sequential run itself.
Advance ==
    /\ pc # "done"
    /\ pc' \in {"main", "transform", "m0_bankfees", "m0_rent", "desc", "m1", "m2",
                "fallback", "union", "validate", "unrec", "daily", "done"} \ {pc}

SpecLive == InitLive /\ [][NextLive]_vars /\ WF_pc(Advance)

FixedStageOrder ==
    << "M0_TAX_DMINUS1_RN_1TO1", "M0_BANKFEES_DMINUS1_RN_1TO1", "M0_RENT_DMINUS1_RN_1TO1",
       "01_DESC_MN_SIGNATURE", "02_DESC_FULL_1N", "03_DESC_KSUM_1N", "03_DESC_KSUM_N1",
       "M1_SAME_DAY_RN", "M2_KSUM_SAME_DAY", "07_FALLBACK_BALANCE_DAY" >>

FixedRank(stage) == CHOOSE k \in DOMAIN FixedStageOrder : FixedStageOrder[k] = stage

\* the batches of matches_parts follow the fixed order of the stages
BatchesInFixedOrder ==
    \A j, k \in DOMAIN matches_parts :
        j < k => FixedRank(PartStage(j)) < FixedRank(PartStage(k))

ControlPoints ==
    << "load", "main", "transform", "m0_bankfees", "m0_rent", "desc", "m1", "m2", "fallback",
       "union", "validate", "unrec", "daily", "done" >>

PcRank(p) == CHOOSE k \in DOMAIN ControlPoints : ControlPoints[k] = p

\* control only moves forward, so the validator (the step that leaves
\* "validate") runs at most once, after every stage
ForwardOnly == pc' # pc => PcRank(pc) < PcRank(pc')

OutputsProduced == pc = "done"

NKsum == 3

KsumApiKinds == {ApiRow(<<1, 1>>, 4, c, "", "", <<>>) : c \in {0, 1, 2, 7}}
KsumErpKinds == {ErpRow(<<1, 1>>, 4, c, <<>>) : c \in {0, 3, 4}}

InitKsum ==
    /\ ssIdle /\ ccIdle /\ dfIdle
    /\ pc = "main"
    /\ A0 \in SeqsUpTo(KsumApiKinds, NKsum)
    /\ E0 \in SeqsUpTo(KsumErpKinds, NKsum)
    /\ desc_edges_by_type = NoDescEdges
    /\ mt_i = 0
    /\ A = {} /\ E = {}
    /\ matches_parts = <<>> /\ matches = {}
    /\ unrec_api = {} /\ unrec_erp = {}
    /\ m2_apis = <<>> /\ m2_erps = <<>>
    /\ daily = {} /\ monthly = {}

SpecKsum == InitKsum /\ [][Next]_vars

M2Edges == StageEdges("M2_KSUM_SAME_DAY")

\* the rows of partition k as solve_same_group reads them
M2GroupApis(k) == M2TargetOrder(A0, m2_apis, k)
M2GroupErps(k) == M2TargetOrder(E0, m2_erps, k)

\* the state of the used sets and the links after the N:1 pass of partition k
N1Pass(k) == KsumPass("ERP", M2GroupErps(k), M2GroupApis(k), NoLinks)

\* the links the 1:N pass of partition k adds, starting from the used sets
\* the N:1 pass left
OneNLinks(k) ==
    KsumPass("API", M2GroupApis(k), M2GroupErps(k),
             [N1Pass(k) EXCEPT !.links = {}]).links

LinkRows(links) ==
    {<<"A", p[1]>> : p \in links} \cup {<<"E", p[2]>> : p \in links}

\* the component of an M2 edge is a star whose items sum to its target
IsExactStar(K) ==
    /\ Cardinality(ApiOf(K)) = 1 \/ Cardinality(ErpOf(K)) = 1
    /\ CentsOver(ApiOf(K), CentsMap(A0)) = CentsOver(ErpOf(K), CentsMap(E0))
    /\ \A x, y \in K : x[1] = "A" /\ y[1] = "E" => SameKey(A0, x[2]) = SameKey(E0, y[2])

M2Ran == pc = "fallback" /\ m2_apis # <<>> /\ m2_erps # <<>>

\* C21: within one partition the edges of M2_KSUM_SAME_DAY form disjoint
\* stars: every connected component of the stage's edges has a single row on
\* one side (the target), lies in one partition, and the signed cents of the
\* rows of the other side sum exactly to the target's cents; no row is in two
\* stars, and a row used in the N:1 pass is neither a target nor an item of
\* the 1:N pass.
C21_M2EdgesAreDisjointStars ==
    /\ \A p \in M2Edges : IsExactStar(Component({<<"A", p[1]>>}, M2Edges))
    /\ M2Ran =>
          \A k \in M2Keys :
              LinkRows(N1Pass(k).links) \cap LinkRows(OneNLinks(k)) = {}

C21_Witness ==
    /\ M2Ran
    /\ \E k \in M2Keys :
          /\ \E p, q \in N1Pass(k).links : p[1] # q[1] /\ p[2] = q[2]
          /\ OneNLinks(k) # {}

(***************************************************************************)
(* Order of the two passes of solve_same_group                             *)
(***************************************************************************)
M2EdgesOf(k) == {p \in M2Edges : SameKey(A0, p[1]) = k}

\* the links a 1:N pass would make in partition k if no row were used yet
OneNAlone(k) == KsumPass("API", M2GroupApis(k), M2GroupErps(k), NoLinks).links

\* C22: in M2_KSUM_SAME_DAY, within one partition every ERP row is tried as
\* an N:1 target before any API row is tried as a 1:N target (the N:1 links
\* are those of a pass that starts from empty used sets), the 1:N pass
\* starts from the used_api / used_erp the N:1 pass left, and so a row that
\* an N:1 match and a 1:N match both need carries the N:1 match only.
C22_N1PassBeforeOneNPass ==
    M2Ran =>
        \A k \in M2Keys :
            LET n1 == N1Pass(k).links
            IN  /\ n1 \subseteq M2EdgesOf(k)
                /\ M2EdgesOf(k) = n1 \cup OneNLinks(k)
                /\ \A p \in M2EdgesOf(k) \ n1 :
                      /\ p[1] \notin N1Pass(k).used_api
                      /\ p[2] \notin N1Pass(k).used_erp
                /\ \A p \in M2EdgesOf(k) :
                      <<"A", p[1]>> \in LinkRows(n1) \/ <<"E", p[2]>> \in LinkRows(n1)
                          => p \in n1

C22_Witness ==
    /\ M2Ran
    /\ \E k \in M2Keys :
          \E p \in OneNAlone(k) :
              /\ <<"E", p[2]>> \in LinkRows(N1Pass(k).links)
              /\ p \notin M2Edges
              /\ N1Pass(k).links # {}

(***************************************************************************)
(* cap_items_by_value (SpecSS)                                             *)
(***************************************************************************)
ValuesOf(pairs) == {pairs[i][2] : i \in 1..Len(pairs)}

\* the bound the cap puts on the items of value c
CapBound(inp, c, target_cents) ==
    LET quota == Abs(target_cents) \div (IF Abs(c) >= 1 THEN Abs(c) ELSE 1)
        floor1 == IF quota >= 1 THEN quota ELSE 1
    IN  MinOf({CountOf(inp, c), floor1, CAP_PER_VALUE})

CapPostcondition(inp, out, target_cents) ==
    /\ \A i \in 1..Len(out) : \E j \in 1..Len(inp) : out[i] = inp[j]
    /\ \A i, j \in 1..Len(out) : i # j => out[i][1] # out[j][1]
    /\ \A c \in ValuesOf(inp) \cup ValuesOf(out) :
          CountOf(out, c) <= CapBound(inp, c, target_cents)
    /\ \A i, j \in 1..Len(out) : i < j => Abs(out[i][2]) >= Abs(out[j][2])
    /\ Len(out) <= KSUM_MAX_ITEMS

CapRan == ss_pc \in {"mitm", "dp", "check"}

\* C23: for every target and item list, cap_items_by_value returns (id, cents)
\* pairs taken from the input in which each distinct cents value c occurs at
\* most min(count of c in the input, max(1, |target| div max(1, |c|)),
\* CAP_PER_VALUE) times, ordered by |cents| descending, of length at most
\* KSUM_MAX_ITEMS; both for the list solve_same_group passes (rows with
\* |cents| <= |target|) and for the unfiltered list.
C23_CapKeepsBoundedSortedItems ==
    /\ CapRan => CapPostcondition(FilterAbsLe(ss_input, ss_target), ss_items, ss_target)
    /\ ss_pc # "idle" =>
          CapPostcondition(ss_input, cap_items_by_value(ss_input, ss_target), ss_target)

C23_Witness ==
    /\ CapRan
    /\ \E c \in ValuesOf(ss_items) :
          /\ CountOf(ss_items, c) = CAP_PER_VALUE
          /\ CountOf(ss_input, c) > CAP_PER_VALUE
    /\ Len(ss_items) = KSUM_MAX_ITEMS
    /\ Len(FilterAbsLe(ss_input, ss_target)) > KSUM_MAX_ITEMS
    /\ \E x, y \in ValuesOf(ss_items) : Abs(x) # Abs(y)

(***************************************************************************)
(* The enumeration budget of subset_mitm (SpecSS)                          *)
(***************************************************************************)
\* lines 417-423: L = items[:m] and R = items[m:] of the list the budget left
MitmHalves(items0) ==
    LET items == enforce_mitm_budget(items0)
        n == Len(items)
        m == MitmSplit(n)
    IN  <<SubSeq(items, 1, m), SubSeq(items, m + 1, n)>>

\* range(1 << len(L)) and range(1 << len(R))
LeftEnumerated(items0) == Cardinality(Masks(MitmHalves(items0)[1]))
RightEnumerated(items0) == Cardinality(Masks(MitmHalves(items0)[2]))

MitmRan == ss_pc \in {"dp", "check"} /\ ss_items # <<>>

\* C24: after enforce_mitm_budget, subset_mitm enumerates at most
\* MITM_STATE_BUDGET subsets of the left half and at most MITM_STATE_BUDGET
\* subsets of the right half, for every item count from 3 to KSUM_MAX_ITEMS.
C24_MitmHalvesWithinBudget ==
    MitmRan /\ Len(ss_items) >= 3 =>
        /\ LeftEnumerated(ss_items) <= MITM_STATE_BUDGET
        /\ RightEnumerated(ss_items) <= MITM_STATE_BUDGET

\* the left half alone is within the budget
C24_LeftHalfWithinBudget ==
    MitmRan /\ Len(ss_items) >= 3 => LeftEnumerated(ss_items) <= MITM_STATE_BUDGET

(***************************************************************************)
(* _subset_sum_for_anchor with its node counter: one anchor, step by step. *)
(* One step is one iteration of "for depth in range(1, max_len + 1)".      *)
(* max_nodes (200,000 in the code) and max_len are instantiated at reduced *)
(* values; the candidates are (position, cents) pairs of the anchor's sign.*)
(***************************************************************************)
max_nodes == 4
DfsMaxLen == 3
DfsMaxCands == 4
DfsCents == {1, 2, 3}
DfsTargets == 1..7

\* dfs with nodes_ref: the result and the value of nodes_ref[0] afterwards
RECURSIVE dfs_n(_, _, _, _, _, _, _)
RECURSIVE DfsForN(_, _, _, _, _, _, _)
dfs_n(abs_vals, target, start, depth_limit, chosen, current_sum, nodes0) ==
    LET nodes == nodes0 + 1
        ret(r) == [res |-> r, nodes |-> nodes]
    IN  IF nodes > max_nodes THEN ret(None)
        ELSE IF Len(chosen) = depth_limit
        THEN ret(IF Abs(current_sum - target) <= EPS_CENTS THEN Some(chosen) ELSE None)
        ELSE IF current_sum > target + EPS_CENTS THEN ret(None)
        ELSE LET remaining_slots == depth_limit - Len(chosen)
             IN  IF start + remaining_slots > Len(abs_vals) THEN ret(None)
                 ELSE IF current_sum + (PrefixSum(abs_vals, start + remaining_slots)
                                        - PrefixSum(abs_vals, start)) < target - EPS_CENTS
                 THEN ret(None)
                 ELSE DfsForN(abs_vals, target, depth_limit, chosen, current_sum,
                              start, nodes)

\* for i in range(start, n): the counter is shared by all the calls
DfsForN(abs_vals, target, depth_limit, chosen, current_sum, i, nodes) ==
    IF i >= Len(abs_vals) THEN [res |-> None, nodes |-> nodes]
    ELSE LET r == dfs_n(abs_vals, target, i + 1, depth_limit, Append(chosen, i),
                        current_sum + abs_vals[i + 1], nodes)
         IN  IF r.res.found THEN r
             ELSE DfsForN(abs_vals, target, depth_limit, chosen, current_sum,
                          i + 1, r.nodes)

\* abs_vals of cands_sorted
DfsAbsVals(cands) ==
    LET cands_sorted == SortByAbsDesc(cands, <<>>)
    IN  [k \in 1..Len(cands_sorted) |-> Abs(cands_sorted[k][2])]

\* calls of dfs that get past the max_nodes test
Visited(nodes) == Min2(nodes, max_nodes)

InitDfs ==
    /\ ssIdle /\ ccIdle /\ plIdle
    /\ df_pc = "depth"
    /\ df_target \in DfsTargets
    /\ df_cands \in {WithIds(cs) : cs \in SeqsUpTo(DfsCents, DfsMaxCands)}
    /\ df_depth = 1
    /\ df_nodes = <<>>
    /\ df_res = None

\* lines 1141-1145, one depth: nodes_ref = [0]; dfs(0, depth, [], 0, nodes_ref)
DfsDepth ==
    /\ df_pc = "depth"
    /\ df_depth <= DfsMaxLen
    /\ LET r == dfs_n(DfsAbsVals(df_cands), df_target, 0, df_depth, <<>>, 0, 0)
       IN  /\ df_nodes' = Append(df_nodes, r.nodes)
           /\ df_res' = r.res
           /\ IF r.res.found
              THEN df_pc' = "done" /\ UNCHANGED df_depth
              ELSE df_pc' = "depth" /\ df_depth' = df_depth + 1
    /\ UNCHANGED <<df_target, df_cands, ssVars, ccVars, plVars>>

\* line 1146: every depth tried, return None
DfsNone ==
    /\ df_pc = "depth"
    /\ df_depth > DfsMaxLen
    /\ df_pc' = "done"
    /\ UNCHANGED <<df_target, df_cands, df_depth, df_nodes, df_res, ssVars, ccVars, plVars>>

NextDfs == DfsDepth \/ DfsNone

SpecDfs == InitDfs /\ [][NextDfs]_vars

RECURSIVE SeqSum(_)
SeqSum(sq) == IF sq = <<>> THEN 0 ELSE Head(sq) + SeqSum(Tail(sq))

VisitedTotal == SeqSum([k \in 1..Len(df_nodes) |-> Visited(df_nodes[k])])

\* C25: for one anchor of a 03_DESC_KSUM stage, _subset_sum_for_anchor visits
\* at most max_nodes search nodes in total, counted over all the depth limits
\* it tries, before it returns a subset or none.
C25_VisitsAtMostMaxNodesInTotal ==
    df_pc = "done" => VisitedTotal <= max_nodes

(***************************************************************************)
(* Validation of a run without description edges                           *)
(***************************************************************************)
Validated == pc \in {"unrec", "daily", "done"}

ComponentOfEdge(p, edges) == Component({<<"A", p[1]>>}, edges)

\* C26: when transform gets no description-stage edges (desc_edges_by_type
\* empty), finalize_by_components discards nothing: every edge emitted by
\* M0_TAX, M0_BANKFEES, M0_RENT, M1_SAME_DAY_RN, M2_KSUM_SAME_DAY and
\* 07_FALLBACK_BALANCE_DAY lies in a balanced component and survives.
C26_NothingDiscardedWithoutDescEdges ==
    Validated /\ desc_edges_by_type = NoDescEdges =>
        /\ matches = Candidates
        /\ \A m \in Candidates :
              Balanced(ComponentOfEdge(PairOf(m), {PairOf(x) : x \in Candidates}),
                       CentsMap(A0), CentsMap(E0))

C26_Witness ==
    /\ pc = "done"
    /\ desc_edges_by_type = NoDescEdges
    /\ matches = Candidates
    /\ \E m, n \in matches :
          /\ m # n
          /\ m.stage \in {"M2_KSUM_SAME_DAY", "07_FALLBACK_BALANCE_DAY"}
          /\ <<"E", n.erp_row_id>> \in
                 ComponentOfEdge(PairOf(m), {PairOf(x) : x \in matches})

(***************************************************************************)
(* Unreconciled rows that M1_SAME_DAY_RN could pair                        *)
(***************************************************************************)
UnrecDone == pc \in {"daily", "done"}

\* an unreconciled API row and an unreconciled ERP row with the same
\* tenant_id, bank_code, acc_tail, sign, date and cents
PairableLeftOver ==
    {p \in unrec_api \X unrec_erp : RnKey(A0, p[1]) = RnKey(E0, p[2])}

\* C27: after a full run there is no pair of an unreconciled API row and an
\* unreconciled ERP row that share tenant_id, bank_code, acc_tail, sign, date
\* and cents: two rows that M1_SAME_DAY_RN could pair one-to-one are never
\* both left unreconciled.
C27_NoPairableRowsLeftUnreconciled ==
    UnrecDone => PairableLeftOver = {}

(***************************************************************************)
(* subset_mitm and subset_dp on the same list: both functions applied to   *)
(* a nonzero target and at most DP_MAX_ITEMS_DP items of the target's sign.*)
(* ss_sol holds the result of subset_mitm, ss_acc the result of subset_dp. *)
(***************************************************************************)
EqCents == 0..7
EqTargets == {t \in (-MaxTarget)..MaxTarget : t # 0}

InitEq ==
    /\ ccIdle /\ plIdle /\ dfIdle
    /\ ss_pc = "eq_mitm"
    /\ ss_target \in EqTargets
    /\ ss_input \in {WithIds([i \in 1..Len(cs) |-> SignOf(ss_target) * cs[i]])
                       : cs \in SeqsUpTo(EqCents, DP_MAX_ITEMS_DP)}
    /\ \A i \in 1..Len(ss_input) : SignOf(ss_input[i][2]) = SignOf(ss_target)
    /\ ss_items = ss_input
    /\ ss_sol = None
    /\ ss_acc = None

EqMitm ==
    /\ ss_pc = "eq_mitm"
    /\ ss_sol' = subset_mitm(ss_target, ss_items)
    /\ ss_pc' = "eq_dp"
    /\ UNCHANGED <<ss_target, ss_input, ss_items, ss_acc, ccVars, plVars, dfVars>>

EqDp ==
    /\ ss_pc = "eq_dp"
    /\ ss_acc' = subset_dp(ss_target, ss_items)
    /\ ss_pc' = "eq_done"
    /\ UNCHANGED <<ss_target, ss_input, ss_items, ss_sol, ccVars, plVars, dfVars>>

NextEq == EqMitm \/ EqDp

SpecEq == InitEq /\ [][NextEq]_vars

EqDone == ss_pc = "eq_done"

EqPrecondition ==
    /\ Len(ss_items) <= DP_MAX_ITEMS_DP
    /\ Pow2(DP_MAX_ITEMS_DP \div 2) <= MITM_STATE_BUDGET

\* C28 as stated: for a nonzero target and items of the target's sign, with
\* at most DP_MAX_ITEMS_DP items and 2^(DP_MAX_ITEMS_DP div 2) <=
\* MITM_STATE_BUDGET, subset_dp finds a subset exactly when subset_mitm does.
C28_DpFindsIffMitmFinds ==
    EqDone /\ EqPrecondition => (ss_acc.found <=> ss_sol.found)

\* C28, amended: under the same precondition subset_dp finds a subset only
\* when subset_mitm finds one, and exactly when subset_mitm finds one if
\* |target| <= DP_MAX_TARGET_CENTS; so the DP fallback, which runs only after
\* subset_mitm returned none, never turns an MITM miss into a match.
C28_DpFindsOnlyIfMitmFinds ==
    EqDone /\ EqPrecondition =>
        /\ ss_acc.found => ss_sol.found
        /\ Abs(ss_target) <= DP_MAX_TARGET_CENTS => (ss_sol.found => ss_acc.found)

C28_Witness ==
    /\ EqDone /\ EqPrecondition
    /\ ss_sol.found /\ ss_acc.found
    /\ Len(ss_sol.ids) = 2 /\ Len(ss_acc.ids) = 2
    /\ Len(ss_items) = DP_MAX_ITEMS_DP

(***************************************************************************)
(* The cap keeps a solution (SpecSameSign)                                 *)
(***************************************************************************)
CapInput == FilterAbsLe(ss_input, ss_target)

\* the length of the capped list before "out = out[:KSUM_MAX_ITEMS]"
CappedLen(inp, target_cents) ==
    LET vals == ValuesOf(inp)
        f == [c \in vals |-> CapBound(inp, c, target_cents)]
    IN  SumOver(vals, f)

CapSolvable ==
    /\ CapRan
    /\ ss_target # 0
    /\ \A i \in 1..Len(CapInput) :
          /\ SignOf(CapInput[i][2]) = SignOf(ss_target)
          /\ 0 < Abs(CapInput[i][2]) /\ Abs(CapInput[i][2]) <= Abs(ss_target)
    /\ SomeSubsetSums(CapInput, ss_target)
    /\ \A c \in ValuesOf(CapInput) : CountOf(CapInput, c) <= CAP_PER_VALUE
    /\ CappedLen(CapInput, ss_target) <= KSUM_MAX_ITEMS

\* C29: for a nonzero target and items of the target's sign with
\* 0 < |cents| <= |target|, if some subset of the input items sums to the
\* target, no cents value occurs more than CAP_PER_VALUE times and the capped
\* list is not truncated by KSUM_MAX_ITEMS, then some subset of the list
\* cap_items_by_value returns also sums to the target.
C29_CapKeepsASolution ==
    CapSolvable => SomeSubsetSums(ss_items, ss_target)

C29_Witness ==
    /\ CapSolvable
    /\ Len(ss_items) < Len(CapInput)
    /\ Cardinality(ValuesOf(CapInput)) >= 2

(***************************************************************************)
(* Rows of zero cents                                                      *)
(***************************************************************************)
ZeroApi == {a \in RowIds(A0) : RowOf(A0, a).cents = 0}
ZeroErp == {e \in RowIds(E0) : RowOf(E0, e).cents = 0}

\* the targets of partition k for which a pass of solve_same_group searched
M2Searched(k) ==
    KsumPass("API", M2GroupApis(k), M2GroupErps(k), N1Pass(k)).searched

AllDescEdges == UNION {desc_edges_by_type[mt] : mt \in DescStages}

\* C30: a row with zero cents is never the target (anchor) of a subset-sum
\* search: M2_KSUM_SAME_DAY skips targets whose cents are 0 in both passes,
\* and the description stages 01, 02 and 03 take no row whose amount is 0
\* into a group, neither as a member nor as an anchor.
C30_ZeroRowsNeverAnchor ==
    /\ M2Ran =>
          \A k \in M2Keys :
              /\ \A t \in M2Searched(k) :
                    /\ t[1] = "ERP" => t[2] \notin ZeroErp
                    /\ t[1] = "API" => t[2] \notin ZeroApi
              /\ \A p \in M2EdgesOf(k) :
                    RowOf(A0, p[1]).cents # 0 \/ RowOf(E0, p[2]).cents # 0
    /\ \A p \in AllDescEdges : p[1] \notin ZeroApi /\ p[2] \notin ZeroErp

C30_Witness ==
    /\ M2Ran
    /\ AllDescEdges # {}
    /\ \E a \in ZeroApi : a \in SeqRange(m2_apis) /\ RowOf(A0, a).text # <<>>
    /\ \E k \in M2Keys : \E t \in M2Searched(k) : t[1] = "ERP"

====
